---- MODULE Spec2Model ----
(***************************************************************************)
(* A model of invisible_detection-new.py: the DOMAnalyzer that decides,    *)
(* for every text run, link and comment of an HTML document, whether a     *)
(* reader can see it.                                                      *)
(*                                                                         *)
(* Python str values are TLA+ strings, read one character at a time with   *)
(* SubSeq.  Python floats are fixed-point integers: a value v is kept as   *)
(* 1000 * v ("milli"), which is exact for every literal of the input menus *)
(* below (at most three decimals).                                         *)
(***************************************************************************)
EXTENDS Integers, Sequences, FiniteSets, TLC

(***************************************************************************)
(* str helpers                                                             *)
(***************************************************************************)
\* s[i-1], or "" when i is outside the string
Ch(s, i) == IF i >= 1 /\ i <= Len(s) THEN SubSeq(s, i, i) ELSE ""

DigitChars == {"0", "1", "2", "3", "4", "5", "6", "7", "8", "9"}
HexChars == DigitChars \cup {"a", "b", "c", "d", "e", "f"}
UpperChars == {"A", "B", "C", "D", "E", "F", "G", "H", "I", "J", "K", "L", "M",
               "N", "O", "P", "Q", "R", "S", "T", "U", "V", "W", "X", "Y", "Z"}
LowerChars == {"a", "b", "c", "d", "e", "f", "g", "h", "i", "j", "k", "l", "m",
               "n", "o", "p", "q", "r", "s", "t", "u", "v", "w", "x", "y", "z"}
WsChars == {" ", "\t", "\n", "\r", "\f"}

\* 1-based place of character c in string s, 0 when absent
IndexOf(c, s) ==
    IF \E i \in 1..Len(s) : Ch(s, i) = c
    THEN CHOOSE i \in 1..Len(s) : Ch(s, i) = c /\ \A j \in 1..(i - 1) : Ch(s, j) # c
    ELSE 0

LowerCh(c) ==
    IF c \in UpperChars
    THEN Ch("abcdefghijklmnopqrstuvwxyz", IndexOf(c, "ABCDEFGHIJKLMNOPQRSTUVWXYZ"))
    ELSE c

\* str.lower()
RECURSIVE Lower(_)
Lower(s) == IF Len(s) = 0 THEN "" ELSE LowerCh(Ch(s, 1)) \o Lower(SubSeq(s, 2, Len(s)))

\* s[a:b] for 0 <= a, with b counted from the left (b >= 0)
Slice(s, a, b) ==
    IF a >= Len(s) \/ b <= a THEN "" ELSE SubSeq(s, a + 1, IF b > Len(s) THEN Len(s) ELSE b)

\* s[a:]
SliceFrom(s, a) == Slice(s, a, Len(s))

\* s[a:-1]
SliceButLast(s, a) == Slice(s, a, Len(s) - 1)

StartsWith(s, p) == Len(s) >= Len(p) /\ SubSeq(s, 1, Len(p)) = p

\* sub in s
Contains(s, sub) ==
    \E i \in 1..(Len(s) - Len(sub) + 1) : SubSeq(s, i, i + Len(sub) - 1) = sub


\* first index >= i whose character is not in set cs (Len(s)+1 when none)
RECURSIVE SkipWhile(_, _, _)
SkipWhile(s, i, cs) ==
    IF i > Len(s) THEN (IF i > Len(s) + 1 THEN i ELSE Len(s) + 1)
    ELSE IF Ch(s, i) \in cs THEN SkipWhile(s, i + 1, cs) ELSE i

\* last index <= i whose character is not in set cs (0 when none)
RECURSIVE SkipBack(_, _, _)
SkipBack(s, i, cs) ==
    IF i < 1 THEN 0 ELSE IF Ch(s, i) \in cs THEN SkipBack(s, i - 1, cs) ELSE i

\* str.strip(cs): leading and trailing characters of cs removed
StripChars(s, cs) == SubSeq(s, SkipWhile(s, 1, cs), SkipBack(s, Len(s), cs))

Strip(s) == StripChars(s, WsChars)

\* first index >= i whose character is in set cs (Len(s)+1 when none)
RECURSIVE SkipUntil(_, _, _)
SkipUntil(s, i, cs) ==
    IF i > Len(s) THEN (IF i > Len(s) + 1 THEN i ELSE Len(s) + 1)
    ELSE IF Ch(s, i) \in cs THEN i ELSE SkipUntil(s, i + 1, cs)

\* str.split(): the whitespace-separated words of s, in order
RECURSIVE SplitWs(_)
SplitWordAt(s, a) ==
    IF a > Len(s) THEN << >>
    ELSE << SubSeq(s, a, SkipUntil(s, a, WsChars) - 1) >>
         \o SplitWs(SubSeq(s, SkipUntil(s, a, WsChars), Len(s)))
SplitWs(s) == SplitWordAt(s, SkipWhile(s, 1, WsChars))

\* str.isdigit() on ASCII input
IsDigitStr(s) == Len(s) > 0 /\ \A i \in 1..Len(s) : Ch(s, i) \in DigitChars

\* s.startswith(p, i - 1)
At(s, i, p) == i >= 1 /\ i + Len(p) - 1 <= Len(s) /\ SubSeq(s, i, i + Len(p) - 1) = p

\* s.find(sub, i - 1) + 1: the first place >= i where sub starts, 0 when none
FindFrom(s, sub, i) ==
    IF \E j \in i..Len(s) : At(s, j, sub)
    THEN CHOOSE j \in i..Len(s) : At(s, j, sub) /\ \A k \in i..(j - 1) : ~At(s, k, sub)
    ELSE 0

(***************************************************************************)
(* numbers                                                                 *)
(***************************************************************************)
\* floats are kept in thousandths
Milli == 1000

DigitVal(c) == IndexOf(c, "0123456789") - 1
HexDigitVal(c) == IndexOf(c, "0123456789abcdef") - 1

\* int(s) for a string of decimal digits
RECURSIVE NatOf(_)
NatOf(s) ==
    IF Len(s) = 0 THEN 0
    ELSE 10 * NatOf(SubSeq(s, 1, Len(s) - 1)) + DigitVal(Ch(s, Len(s)))

\* int(s, 16) for a string of hex digits
RECURSIVE HexOf(_)
HexOf(s) ==
    IF Len(s) = 0 THEN 0
    ELSE 16 * HexOf(SubSeq(s, 1, Len(s) - 1)) + HexDigitVal(Ch(s, Len(s)))

Abs(x) == IF x < 0 THEN -x ELSE x
Min(a, b) == IF a <= b THEN a ELSE b
Max(a, b) == IF a >= b THEN a ELSE b

\* int(x) of the quotient n / d for d > 0: truncation toward zero
TruncDiv(n, d) == IF n >= 0 THEN n \div d ELSE -((-n) \div d)

\* The fraction digits of a decimal literal as thousandths ("5" -> 500)
FracMilli(f) ==
    100 * (IF Len(f) >= 1 THEN DigitVal(Ch(f, 1)) ELSE 0)
      + 10 * (IF Len(f) >= 2 THEN DigitVal(Ch(f, 2)) ELSE 0)
      + (IF Len(f) >= 3 THEN DigitVal(Ch(f, 3)) ELSE 0)

\* the value of integer part ip and fraction part fp, when they are digits
\* and not both empty
FloatDigits(ip, fp) ==
    IF /\ Len(ip) + Len(fp) > 0
       /\ \A i \in 1..Len(ip) : Ch(ip, i) \in DigitChars
       /\ \A i \in 1..Len(fp) : Ch(fp, i) \in DigitChars
    THEN [ok |-> TRUE, v |-> Milli * NatOf(ip) + FracMilli(fp)]
    ELSE [ok |-> FALSE, v |-> 0]

\* an unsigned literal whose point is at dot (0: no point)
FloatUnsigned(body, dot) ==
    IF dot = 0 THEN FloatDigits(body, "")
    ELSE FloatDigits(SubSeq(body, 1, dot - 1), SubSeq(body, dot + 1, Len(body)))

FloatNegated(m) == [ok |-> m.ok, v |-> -m.v]

FloatStripped(s) ==
    IF Ch(s, 1) = "-" THEN FloatNegated(FloatUnsigned(SliceFrom(s, 1), IndexOf(".", SliceFrom(s, 1))))
    ELSE IF Ch(s, 1) = "+" THEN FloatUnsigned(SliceFrom(s, 1), IndexOf(".", SliceFrom(s, 1)))
    ELSE FloatUnsigned(s, IndexOf(".", s))

(* float(s): ok = FALSE stands for ValueError.  Python accepts surrounding *)
(* whitespace, one sign, digits with at most one point and at least one    *)
(* digit; exponents, inf and nan are accepted by Python too and are not in *)
(* any menu of this model.                                                 *)
ParseFloat(s0) == FloatStripped(Strip(s0))

\* to nearest, exact halves to even, given quotient q and remainder r of d
RoundHalfEven(q, r, d) ==
    IF 2 * r < d THEN q
    ELSE IF 2 * r > d THEN q + 1
    ELSE IF q % 2 = 0 THEN q ELSE q + 1

\* Python's round(n / d) and "%.0f" for d > 0: to nearest, exact halves to even
PyRound(n, d) == RoundHalfEven(n \div d, n % d, d)

(***************************************************************************)
(* Patterns.  The regular expressions of the module that are a sequence of *)
(* character runs are kept as sequences of atoms: a run of characters of   *)
(* cs, at least min long, one character or many, captured or not.  The     *)
(* character classes of neighbouring atoms are disjoint wherever a run can *)
(* be empty, so the greedy scan finds the match the backtracking engine    *)
(* finds.                                                                  *)
(***************************************************************************)
Atom(cs, min, many, cap) == [cs |-> cs, min |-> min, many |-> many, cap |-> cap]
One(c) == Atom({c}, 1, FALSE, FALSE)
Opt(c) == Atom({c}, 0, FALSE, FALSE)
Ws == Atom(WsChars, 0, TRUE, FALSE)

NoMatch == [ok |-> FALSE, caps |-> << >>, end |-> 0]

\* end (exclusive) of the run of the atom that starts at i
ScanRun(s, i, atom) ==
    IF atom.many THEN SkipWhile(s, i, atom.cs)
    ELSE IF Ch(s, i) \in atom.cs THEN i + 1 ELSE i

\* pattern.match(s, i - 1) from atom k on, the captures so far being caps
RECURSIVE Scan(_, _, _, _, _)
ScanStep(s, i, atoms, k, caps, e) ==
    IF e - i < atoms[k].min THEN NoMatch
    ELSE Scan(s, e, atoms, k + 1,
              IF atoms[k].cap THEN Append(caps, SubSeq(s, i, e - 1)) ELSE caps)
Scan(s, i, atoms, k, caps) ==
    IF k > Len(atoms) THEN [ok |-> TRUE, caps |-> caps, end |-> i]
    ELSE ScanStep(s, i, atoms, k, caps, ScanRun(s, i, atoms[k]))

Digits == Atom(DigitChars, 1, TRUE, TRUE)
OptNumber == Atom(DigitChars \cup {"."}, 0, TRUE, TRUE)

\* RGB_RE, on lower-case text
RGB_RE ==
    << One("r"), One("g"), One("b"), Opt("a"), One("("), Ws, Digits, Ws, One(","), Ws,
       Digits, Ws, One(","), Ws, Digits, Ws, Opt(","), Ws, OptNumber, Ws, One(")") >>

\* HSL_RE, on lower-case text
HSL_RE ==
    << One("h"), One("s"), One("l"), Opt("a"), One("("), Ws, Digits, Ws, One(","), Ws,
       Digits, One("%"), Ws, One(","), Ws, Digits, One("%"), Ws, Opt(","), Ws, OptNumber,
       Ws, One(")") >>

(***************************************************************************)
(* Colour model.  A colour is [rgb |-> <<r, g, b>>, alpha |-> milli].      *)
(***************************************************************************)
Color(r, g, b, a) == [rgb |-> << r, g, b >>, alpha |-> a]

DefaultFg == Color(0, 0, 0, Milli)
DefaultBg == Color(255, 255, 255, Milli)

\* part of the table behind webcolors.name_to_rgb; a name outside the table
\* makes name_to_rgb raise ValueError
NamedColors ==
    [n \in {"black", "white", "red", "blue", "gray"} |->
        CASE n = "black" -> << 0, 0, 0 >>
          [] n = "white" -> << 255, 255, 255 >>
          [] n = "red" -> << 255, 0, 0 >>
          [] n = "blue" -> << 0, 0, 255 >>
          [] n = "gray" -> << 128, 128, 128 >>]

\* float(group or 1)
AlphaGroup(g) == IF g = "" THEN [ok |-> TRUE, v |-> Milli] ELSE ParseFloat(g)

\* hue_to_rgb(p, q, t) as 60 * 10000 * value, for p, q in 1/10000 and the
\* hue argument t in 1/360, already wrapped into 0..360
HueToRgb(p4, q4, t) ==
    IF t < 60 THEN 60 * p4 + (q4 - p4) * t
    ELSE IF t < 180 THEN 60 * q4
    ELSE IF t < 240 THEN 60 * p4 + (q4 - p4) * (240 - t)
    ELSE 60 * p4

\* t += 1 when t < 0, t -= 1 when t > 1
WrapHue(t) == IF t < 0 THEN t + 360 ELSE IF t > 360 THEN t - 360 ELSE t

HslChannels(h, p4, q4, alpha) ==
    Color(PyRound(HueToRgb(p4, q4, WrapHue(h + 120)) * 255, 600000),
          PyRound(HueToRgb(p4, q4, WrapHue(h)) * 255, 600000),
          PyRound(HueToRgb(p4, q4, WrapHue(h - 120)) * 255, 600000), alpha)

HslWithQ(h, s, l, alpha, q4) == HslChannels(h, 2 * l * 100 - q4, q4, alpha)

(* _hsl_to_rgb: h in degrees, s and l in percent                           *)
HslToRgb(h, s, l, alpha) ==
    IF s = 0
    THEN Color(PyRound(l * 255, 100), PyRound(l * 255, 100), PyRound(l * 255, 100), alpha)
    ELSE HslWithQ(h, s, l, alpha, IF l < 50 THEN l * (100 + s) ELSE (l + s) * 100 - l * s)

ColorFailed == [ok |-> FALSE, c |-> DefaultFg]
ColorParsed(c) == [ok |-> TRUE, c |-> c]

\* the colour of the hex digits h (3 and 4 digits already doubled); the
\* alpha int(alpha_hex, 16) / 255.0 is exact for 00 and ff
HexColor(h) ==
    ColorParsed(Color(HexOf(Slice(h, 0, 2)), HexOf(Slice(h, 2, 4)), HexOf(Slice(h, 4, 6)),
                      PyRound(HexOf(Slice(SliceFrom(h, 6) \o "ff", 0, 2)) * Milli, 255)))

\* ''.join(c * 2 for c in hex_str) when hex_str has 3 or 4 digits
DoubleHex(h) ==
    IF Len(h) = 3 THEN Ch(h, 1) \o Ch(h, 1) \o Ch(h, 2) \o Ch(h, 2) \o Ch(h, 3) \o Ch(h, 3)
    ELSE IF Len(h) = 4
    THEN Ch(h, 1) \o Ch(h, 1) \o Ch(h, 2) \o Ch(h, 2) \o Ch(h, 3) \o Ch(h, 3)
         \o Ch(h, 4) \o Ch(h, 4)
    ELSE h

\* COLOR_HEX_RE.match(value)
IsHexColor(value) ==
    /\ Ch(value, 1) = "#"
    /\ Len(value) - 1 \in 3..8
    /\ \A i \in 2..Len(value) : Ch(value, i) \in HexChars

RgbColor(g, alpha) ==
    IF alpha.ok THEN ColorParsed(Color(NatOf(g[1]), NatOf(g[2]), NatOf(g[3]), alpha.v))
    ELSE ColorFailed

HslColor(g, alpha) ==
    IF alpha.ok THEN ColorParsed(HslToRgb(NatOf(g[1]), NatOf(g[2]), NatOf(g[3]), alpha.v))
    ELSE ColorFailed

NamedColor(value) ==
    IF value \in DOMAIN NamedColors
    THEN ColorParsed(Color(NamedColors[value][1], NamedColors[value][2],
                           NamedColors[value][3], Milli))
    ELSE ColorFailed

HslOrNamed(value, hslm) ==
    IF hslm.ok THEN HslColor(hslm.caps, AlphaGroup(hslm.caps[4])) ELSE NamedColor(value)

RgbOrLater(value, rgbm) ==
    IF rgbm.ok THEN RgbColor(rgbm.caps, AlphaGroup(rgbm.caps[4]))
    ELSE HslOrNamed(value, Scan(value, 1, HSL_RE, 1, << >>))

\* the branches of _parse_color_string on the stripped, lower-case value
ColorOfString(value) ==
    IF value = "transparent" THEN ColorParsed(Color(0, 0, 0, 0))
    ELSE IF IsHexColor(value) THEN HexColor(DoubleHex(SliceFrom(value, 1)))
    ELSE RgbOrLater(value, Scan(value, 1, RGB_RE, 1, << >>))

(* _parse_color_string: ok = FALSE stands for an exception (ValueError     *)
(* from float or from name_to_rgb)                                         *)
ParseColorString(value0) == ColorOfString(Lower(Strip(value0)))

\* max(0, min(x, 255))
ClampChannel(x) == Max(0, Min(x, 255))

\* _parse_color_tuple on a tuple of numbers (alpha, the fourth, in milli)
ParseColorTuple(t) ==
    IF Len(t) \notin {3, 4} THEN DefaultFg
    ELSE Color(ClampChannel(t[1]), ClampChannel(t[2]), ClampChannel(t[3]),
               Max(0, Min(IF Len(t) = 4 THEN t[4] ELSE Milli, Milli)))

\* _parse_color_dict on a mapping
ParseColorDict(d) ==
    IF ~({"rgb", "alpha"} \subseteq DOMAIN d) THEN DefaultFg
    ELSE [rgb |-> d.rgb, alpha |-> d.alpha]

\* the parsed colour, or the default when parsing raised
ColorOr(r, dflt) == IF r.ok THEN r.c ELSE dflt

(* _parse_color.  The argument says what Python type it is:                *)
(*   [k |-> "str", s |-> ...], [k |-> "tuple", t |-> ...],                 *)
(*   [k |-> "list", t |-> ...], [k |-> "dict", d |-> ...], [k |-> "none"]  *)
(* None ends in the except branch ("in" on None raises TypeError).         *)
ParseColor(value, colortype) ==
    CASE value.k = "str" ->
            ColorOr(ParseColorString(value.s), IF colortype = "fg" THEN DefaultFg ELSE DefaultBg)
      [] value.k \in {"tuple", "list"} -> ParseColorTuple(value.t)
      [] value.k = "dict" -> ParseColorDict(value.d)
      [] OTHER -> IF colortype = "fg" THEN DefaultFg ELSE DefaultBg

Str(s) == [k |-> "str", s |-> s]
Dict(d) == [k |-> "dict", d |-> d]

\* int(min(255, f*fa + b*ba*(1 - fa))), with the alphas in milli
BlendChannel(f, fa, b, ba) ==
    TruncDiv(Min(255 * Milli * Milli, f * fa * Milli + b * ba * (Milli - fa)), Milli * Milli)

(* _blend_colors on two colour mappings (every caller passes mappings)     *)
BlendColors(fg, bg) ==
    IF fg.alpha = 0 THEN Color(0, 0, 0, 0)
    ELSE Color(BlendChannel(fg.rgb[1], fg.alpha, bg.rgb[1], bg.alpha),
               BlendChannel(fg.rgb[2], fg.alpha, bg.rgb[2], bg.alpha),
               BlendChannel(fg.rgb[3], fg.alpha, bg.rgb[3], bg.alpha),
               fg.alpha + PyRound(bg.alpha * (Milli - fg.alpha), Milli))

(***************************************************************************)
(* Number formatting                                                       *)
(***************************************************************************)
\* str(n) for n >= 0
RECURSIVE NatStr(_)
NatStr(n) ==
    IF n < 10 THEN Ch("0123456789", n + 1)
    ELSE NatStr(n \div 10) \o Ch("0123456789", (n % 10) + 1)

\* f"{x:.2f}" for x = h / 100 >= 0
FormatFixed2(h) ==
    NatStr(h \div 100) \o "." \o Ch("0123456789", ((h \div 10) % 10) + 1)
                               \o Ch("0123456789", (h % 10) + 1)

\* the digits repr() writes after the point for f thousandths: "0", "5", "25"
FractionDigits(f) ==
    Ch("0123456789", (f \div 100) + 1)
      \o (IF f % 100 = 0 THEN ""
          ELSE Ch("0123456789", ((f \div 10) % 10) + 1)
                 \o (IF f % 10 = 0 THEN "" ELSE Ch("0123456789", (f % 10) + 1)))

\* f"{x}" (repr of a float) for x = m / 1000 >= 0: "12.0", "0.5", "1.25"
FormatFloat(m) == NatStr(m \div Milli) \o "." \o FractionDigits(m % Milli)

\* a * 1.333 in milli for a >= 0, without leaving 32 bits
Scale1333(a) == (a \div Milli) * 1333 + PyRound((a % Milli) * 1333, Milli)

\* m * 1.333 in milli
Times1333(m) == IF m < 0 THEN -Scale1333(-m) ELSE Scale1333(m)

\* str.replace(c, "") for a one-character c
RECURSIVE RemoveChar(_, _)
RemoveChar(s, c) ==
    IF Len(s) = 0 THEN ""
    ELSE (IF Ch(s, 1) = c THEN "" ELSE Ch(s, 1)) \o RemoveChar(SubSeq(s, 2, Len(s)), c)

(***************************************************************************)
(* Opacity                                                                 *)
(***************************************************************************)
(* The hundredths p for which the double nearest to p/100 lies above p/100 *)
(* (IEEE 754 binary64).  The product of such a parent opacity with a       *)
(* binary-exact factor (0.5, 0.25) that is a decimal half-way case prints  *)
(* rounded up; one whose double lies below prints rounded down; 0, 0.25,   *)
(* 0.5, 0.75 and 1 are exact and print rounded to even.                    *)
DoubleAbove ==
    {1, 2, 4, 5, 7, 8, 10, 11, 13, 14, 16, 17, 19, 20, 22, 23, 26, 27, 28, 32, 33,
     34, 38, 39, 40, 44, 45, 46, 51, 52, 53, 54, 55, 56, 63, 64, 65, 66, 67, 68,
     76, 77, 78, 79, 80, 81, 88, 89, 90, 91, 92, 93}
DoubleExact == {0, 25, 50, 75, 100}

Float(v) == [k |-> "float", v |-> v]

\* float(parent_opacity)
ParentAlpha(pf) == IF pf.ok THEN pf.v ELSE Milli

\* a faulty variant of ClampAlpha that does not cap the factor at 1.0
ClampBelowOnly(cf, pct) ==
    IF cf.ok THEN Max(0, IF pct THEN cf.v ELSE 100 * cf.v)
    ELSE 100 * Milli

\* max(0.0, min(1.0, current_alpha)) in 1/100000, the factor 1.0 when float()
\* raised; pct tells whether the value carried a "%"
ClampAlpha(cf, pct) ==
    IF cf.ok THEN Max(0, Min(100 * Milli, IF pct THEN cf.v ELSE 100 * cf.v))
    ELSE 100 * Milli

(* The factor a value contributes.  A float (the alpha of a colour) has no *)
(* strip(): the AttributeError lands in the bare except and the factor is  *)
(* 1.0.                                                                    *)
CurrentAlpha(current_value) ==
    IF current_value.k = "str"
    THEN ClampAlpha(ParseFloat(RemoveChar(Strip(current_value.s), "%")),
                    Contains(current_value.s, "%"))
    ELSE 100 * Milli

\* f"{q.r:.2f}" of a product with quotient q and remainder r over 10^6, for a
\* parent opacity of p hundredths
RoundProduct(q, r, p) ==
    IF 2 * r < Milli * Milli THEN q
    ELSE IF 2 * r > Milli * Milli THEN q + 1
    ELSE IF p \in DoubleAbove THEN q + 1
    ELSE IF p \in DoubleExact /\ q % 2 = 1 THEN q + 1
    ELSE q

\* f"{parent_alpha * current_alpha:.2f}"
CombineOpacity(parent_alpha, current_alpha) ==
    FormatFixed2(RoundProduct((parent_alpha * current_alpha) \div (Milli * Milli),
                              (parent_alpha * current_alpha) % (Milli * Milli),
                              parent_alpha \div 10))

(* _parse_opacity(current_value, parent_opacity): the accumulated opacity  *)
(* as a string with two decimals.  current_value is a str, or the float    *)
(* alpha of a colour.                                                      *)
ParseOpacity(current_value, parent_opacity) ==
    CombineOpacity(ParentAlpha(ParseFloat(parent_opacity)), CurrentAlpha(current_value))

(***************************************************************************)
(* Lengths and font sizes                                                  *)
(***************************************************************************)
LengthNone == [st |-> "none", v |-> 0]
LengthRaise == [st |-> "raise", v |-> 0]

\* the unit group (px|pt|em|rem|%)? of LENGTH_RE at place e
UnitAt(value, e) ==
    IF At(value, e, "px") THEN "px"
    ELSE IF At(value, e, "pt") THEN "pt"
    ELSE IF At(value, e, "em") THEN "em"
    ELSE IF At(value, e, "rem") THEN "rem"
    ELSE IF At(value, e, "%") THEN "%"
    ELSE ""

\* the pixels of a number with a unit
LengthOf(num, unit) ==
    IF ~num.ok THEN LengthRaise
    ELSE [st |-> "ok",
          v |-> CASE unit = "pt" -> Times1333(num.v)
                  [] unit \in {"em", "rem"} -> num.v * 16
                  [] unit = "%" -> TruncDiv(num.v * 16, 100)
                  [] OTHER -> num.v]

\* the number runs from place 1 to e (exclusive), its digits from place a
LengthAt(value, a, e) ==
    IF e = a THEN LengthNone
    ELSE LengthOf(ParseFloat(SubSeq(value, 1, e - 1)), UnitAt(value, e))

LengthFrom(value, a) == LengthAt(value, a, SkipWhile(value, a, DigitChars \cup {"."}))

(* _parse_length(value): st = "none" is the None of a value LENGTH_RE does *)
(* not match at its start, st = "raise" the ValueError of float() on a     *)
(* number such as "1.2.3", st = "ok" a length v in milli-pixels.           *)
ParseLength(value) == LengthFrom(value, IF Ch(value, 1) \in {"-", "+"} THEN 2 ELSE 1)

LegacyFontSizes == << 10, 13, 16, 18, 24, 32, 48 >>

FontSize(s) == [ok |-> TRUE, s |-> s]

\* a size with a number and one of the units px, pt, em, %
FontSizeWith(num, unit) ==
    IF ~num.ok THEN [ok |-> FALSE, s |-> ""]
    ELSE IF unit = "pt" THEN FontSize(NatStr(PyRound(Times1333(num.v), Milli)) \o "px")
    ELSE FontSize(FormatFloat(num.v) \o unit)

\* the number ends at place e (exclusive)
ModernFontSize(value, e) ==
    IF e > 1 /\ SubSeq(value, e, Len(value)) \in {"px", "pt", "em", "%"}
    THEN FontSizeWith(ParseFloat(SubSeq(value, 1, e - 1)), SubSeq(value, e, Len(value)))
    ELSE FontSize("16px")

FontSizeOf(value) ==
    IF IsDigitStr(value) /\ Len(value) <= 9 /\ NatOf(value) \in 1..7
    THEN FontSize(NatStr(LegacyFontSizes[NatOf(value)]) \o "px")
    ELSE ModernFontSize(value, SkipWhile(value, 1, DigitChars \cup {"."}))

(* _parse_font_size(value): ok = FALSE is the ValueError of float() on a   *)
(* number with two points                                                  *)
ParseFontSize(value0) == FontSizeOf(Lower(Strip(value0)))

(***************************************************************************)
(* Style cascade.  A style is a function from property names to values: a  *)
(* colour under "color" and "background-color", a str under every other    *)
(* name.  A node is [name |-> tag, attrs |-> function from attribute names *)
(* to str].                                                                *)
(***************************************************************************)
INHERITABLE_PROPS ==
    {"color", "font-family", "font-size", "font-weight", "font-style", "line-height",
     "text-indent", "visibility", "opacity", "background-color", "bgcolor"}

DEFAULT_STYLE ==
    [p \in {"color", "background-color", "font-size", "opacity"} |->
        CASE p = "color" -> DefaultFg
          [] p = "background-color" -> DefaultBg
          [] p = "font-size" -> "16px"
          [] p = "opacity" -> "1"]

EXCLUDED_TAGS == {"script", "style", "meta", "link", "noscript", "svg", "img", "title"}

NON_STYLABLE_TAGS == EXCLUDED_TAGS \cup {"br", "hr", "img", "meta", "link"}

\* style[k] = v
StyleSet(style, k, v) == [q \in DOMAIN style \cup {k} |-> IF q = k THEN v ELSE style[q]]

\* dict.get(k, d)
Get(d, k, dflt) == IF k \in DOMAIN d THEN d[k] ELSE dflt

PropChars == UpperChars \cup LowerChars \cup {"-"}

NoProp(a) == [ok |-> FALSE, prop |-> "", value |-> "", end |-> a]

\* the value group [^;]+ runs from vs to ve (exclusive)
PropValueTo(s, a, e, w, vs, ve) ==
    IF vs > w /\ ve > vs
    THEN [ok |-> TRUE, prop |-> SubSeq(s, a, e - 1), value |-> SubSeq(s, vs, ve - 1), end |-> ve]
    ELSE NoProp(a)

\* v0 is the first non-blank place after the colon: when a ";" or the end of
\* the text stands there, the engine gives the last blank back to the value
PropValue(s, a, e, w, v0) ==
    IF v0 <= Len(s) /\ Ch(s, v0) # ";"
    THEN PropValueTo(s, a, e, w, v0, SkipUntil(s, v0, {";"}))
    ELSE PropValueTo(s, a, e, w, v0 - 1, SkipUntil(s, v0 - 1, {";"}))

\* w is the first non-blank place after the property name
PropColon(s, a, e, w) ==
    IF Ch(s, w) = ":" THEN PropValue(s, a, e, w, SkipWhile(s, w + 1, WsChars)) ELSE NoProp(a)

\* the property name runs from a to e (exclusive)
PropName(s, a, e) == IF e > a THEN PropColon(s, a, e, SkipWhile(s, e, WsChars)) ELSE NoProp(a)

(* One match of STYLE_PROP_RE, ([a-zA-Z-]+)\s*:\s*([^;]+), starting at a   *)
StylePropMatchAt(s, a) == PropName(s, a, SkipWhile(s, a, PropChars))

\* STYLE_PROP_RE.findall(s): the (property, value) pairs from place i on
RECURSIVE StylePropFindall(_, _)
FindallAt(s, i, m) ==
    IF m.ok THEN << << m.prop, m.value >> >> \o StylePropFindall(s, m.end)
    ELSE StylePropFindall(s, i + 1)
StylePropFindall(s, i) ==
    IF i > Len(s) THEN << >> ELSE FindallAt(s, i, StylePropMatchAt(s, i))

\* the place of the last pair with key k
LastOf(pairs, k) ==
    CHOOSE i \in 1..Len(pairs) : pairs[i][1] = k /\ \A j \in (i + 1)..Len(pairs) : pairs[j][1] # k

\* dict(pairs).items(): each key once, where it first stands, with its last value
DictItems(pairs) ==
    LET F[i \in 0..Len(pairs)] ==
            IF i = 0 THEN << >>
            ELSE IF \A j \in 1..(i - 1) : pairs[j][1] # pairs[i][1]
                 THEN Append(F[i - 1], << pairs[i][1], pairs[LastOf(pairs, pairs[i][1])][2] >>)
                 ELSE F[i - 1]
    IN  F[Len(pairs)]

\* {k.lower(): v for k, v in node.attrs.items()} (attribute names of the
\* parsed tree are lower case already)
LowerAttrs(node) == node.attrs

ALIGN_MAP ==
    [a \in {"left", "right", "center", "middle", "justify"} |->
        IF a = "middle" THEN "center" ELSE a]

(* The state carried through _parse_node_style: the style being built,     *)
(* current_opacity, and ok = FALSE once an exception has been raised.      *)
StyleState(style, op, ok) == [style |-> style, op |-> op, ok |-> ok]

\* style['color'] = col, then
\* current_opacity = _parse_opacity(style['color']['alpha'], current_opacity)
WithColor(st, col) ==
    StyleState(StyleSet(st.style, "color", col), ParseOpacity(Float(col.alpha), st.op), TRUE)

\* style['font-size'] = _parse_font_size(...), which may raise
WithFontSize(st, fs) ==
    IF fs.ok THEN StyleState(StyleSet(st.style, "font-size", fs.s), st.op, TRUE)
    ELSE StyleState(st.style, st.op, FALSE)

FontColorAttr(attrs, st) ==
    IF "color" \in DOMAIN attrs THEN WithColor(st, ParseColor(Str(attrs["color"]), "fg")) ELSE st

FontSizeAttr(attrs, st) ==
    IF "size" \in DOMAIN attrs THEN WithFontSize(st, ParseFontSize(attrs["size"])) ELSE st

\* the attributes of a font element
ApplyFontAttrs(node, st) ==
    IF node.name # "font" THEN st
    ELSE FontSizeAttr(LowerAttrs(node), FontColorAttr(LowerAttrs(node), st))

\* a faulty variant of WithBackground that substitutes the parsed bgcolor
WithBackgroundReplaced(style, parsed_color) == StyleSet(style, "background-color", parsed_color)

\* the parsed bgcolor, blended over the background the style has so far
WithBackground(style, parsed_color) ==
    IF "background-color" \in DOMAIN style
    THEN StyleSet(style, "background-color", BlendColors(parsed_color, style["background-color"]))
    ELSE StyleSet(style, "background-color", parsed_color)

ApplyBgcolorAttr(attrs, st) ==
    IF "bgcolor" \notin DOMAIN attrs THEN st
    ELSE StyleState(WithBackground(st.style, ParseColor(Str(attrs["bgcolor"]), "bg")), st.op, st.ok)

TextAttr(attrs, st) ==
    IF "text" \in DOMAIN attrs THEN WithColor(st, ParseColor(Str(attrs["text"]), "fg")) ELSE st

AlignAttr(attrs, st) ==
    IF "align" \in DOMAIN attrs
    THEN StyleState(StyleSet(st.style, "text-align", Get(ALIGN_MAP, Lower(attrs["align"]), "left")),
                    st.op, st.ok)
    ELSE st

\* re.match(r'^\d+$', width): $ also matches before a newline that ends the text
IsNumberText(w) ==
    \/ IsDigitStr(w)
    \/ (Len(w) > 1 /\ Ch(w, Len(w)) = "\n" /\ IsDigitStr(SubSeq(w, 1, Len(w) - 1)))

WidthAttr(attrs, st) ==
    IF "width" \in DOMAIN attrs
    THEN StyleState(StyleSet(st.style, "width",
                             IF IsNumberText(attrs["width"]) THEN attrs["width"] \o "px"
                             ELSE attrs["width"]),
                    st.op, st.ok)
    ELSE st

\* the attributes of table, tr, td, th, font and body
ApplyTableAttrs(node, st) ==
    IF ~st.ok \/ node.name \notin {"table", "tr", "td", "th", "font", "body"} THEN st
    ELSE WidthAttr(LowerAttrs(node),
                   AlignAttr(LowerAttrs(node),
                             TextAttr(LowerAttrs(node), ApplyBgcolorAttr(LowerAttrs(node), st))))

\* one inline declaration, its property name in lower case
Declare(prop, value, st) ==
    IF prop \in {"background-color", "bgcolor"}
    THEN StyleState(StyleSet(st.style, "background-color", ParseColor(Str(value), "bg")), st.op, TRUE)
    ELSE IF prop = "color" THEN WithColor(st, ParseColor(Str(value), "fg"))
    ELSE IF prop = "font-size" THEN WithFontSize(st, ParseFontSize(value))
    ELSE IF prop = "opacity" THEN StyleState(st.style, ParseOpacity(Str(value), st.op), TRUE)
    ELSE StyleState(StyleSet(st.style, prop, value), st.op, TRUE)

ApplyDeclaration(prop0, value, st) == Declare(Lower(prop0), value, st)

\* the loop over inline_style.items() from item i on
RECURSIVE ApplyItems(_, _, _)
ApplyItems(items, i, st) ==
    IF i > Len(items) \/ ~st.ok THEN st
    ELSE ApplyItems(items, i + 1, ApplyDeclaration(items[i][1], items[i][2], st))

\* the inline declarations, in order
ApplyInlineStyle(node, st) ==
    IF ~st.ok \/ "style" \notin DOMAIN node.attrs THEN st
    ELSE ApplyItems(DictItems(StylePropFindall(node.attrs["style"], 1)), 1, st)

\* style['opacity'] = current_opacity; return style
FinishStyle(st) == [ok |-> st.ok, style |-> StyleSet(st.style, "opacity", st.op)]

(* _parse_node_style(node, inherited_style): ok = FALSE is the ValueError  *)
(* that _parse_font_size lets through; otherwise style is the resolved     *)
(* style.  The inherited style is read, never changed.                     *)
ParseNodeStyle(node, inherited_style) ==
    FinishStyle(
        ApplyInlineStyle(node,
            ApplyTableAttrs(node,
                ApplyFontAttrs(node,
                    StyleState(inherited_style,
                               ParseOpacity(Str(Get(node.attrs, "opacity", "1")),
                                            Get(inherited_style, "opacity", "1.0")),
                               TRUE)))))

\* a faulty variant of InheritedOf that hands down every property
InheritAll(current_style) == current_style

\* what a node hands to its children
InheritedOf(current_style) ==
    [k \in DOMAIN current_style \cap INHERITABLE_PROPS |-> current_style[k]]

(***************************************************************************)
(* Contrast                                                                *)
(***************************************************************************)
(* linearize(c) of _calculate_contrast for c = 0..255, times 100000, as    *)
(* IEEE 754 doubles give it (the 2.4th power has no integer formula)       *)
LinearTable ==
    << 0, 30, 61, 91, 121, 152, 182, 212, 243, 273, 304, 335, 368, 402, 439, 478,
       518, 561, 605, 651, 700, 750, 802, 857, 913, 972, 1033, 1096, 1161, 1229, 1298, 1370,
       1444, 1521, 1600, 1681, 1764, 1850, 1938, 2029, 2122, 2217, 2315, 2416, 2519, 2624, 2732, 2843,
       2956, 3071, 3190, 3310, 3434, 3560, 3689, 3820, 3955, 4092, 4231, 4374, 4519, 4667, 4817, 4971,
       5127, 5286, 5448, 5613, 5781, 5951, 6125, 6301, 6480, 6663, 6848, 7036, 7227, 7421, 7619, 7819,
       8022, 8228, 8438, 8650, 8866, 9084, 9306, 9531, 9759, 9990, 10224, 10462, 10702, 10946, 11193, 11444,
       11697, 11954, 12214, 12477, 12744, 13014, 13287, 13563, 13843, 14126, 14413, 14703, 14996, 15293, 15593, 15896,
       16203, 16513, 16827, 17144, 17465, 17789, 18116, 18447, 18782, 19120, 19462, 19807, 20156, 20508, 20864, 21223,
       21586, 21953, 22323, 22697, 23074, 23455, 23840, 24228, 24620, 25016, 25415, 25818, 26225, 26636, 27050, 27468,
       27889, 28315, 28744, 29177, 29614, 30054, 30499, 30947, 31399, 31855, 32314, 32778, 33245, 33716, 34191, 34670,
       35153, 35640, 36131, 36625, 37124, 37626, 38133, 38643, 39157, 39676, 40198, 40724, 41254, 41789, 42327, 42869,
       43415, 43966, 44520, 45079, 45641, 46208, 46778, 47353, 47932, 48515, 49102, 49693, 50289, 50888, 51492, 52100,
       52712, 53328, 53948, 54572, 55201, 55834, 56471, 57112, 57758, 58408, 59062, 59720, 60383, 61050, 61721, 62396,
       63076, 63760, 64448, 65141, 65837, 66539, 67244, 67954, 68669, 69387, 70110, 70838, 71569, 72306, 73046, 73791,
       74540, 75294, 76052, 76815, 77582, 78354, 79130, 79910, 80695, 81485, 82279, 83077, 83880, 84687, 85499, 86316,
       87137, 87962, 88792, 89627, 90466, 91310, 92158, 93011, 93869, 94731, 95597, 96469, 97345, 98225, 99110, 100000 >>

\* the same for the channels above 255 that the unclamped parsers of the
\* menus produce
LinearAbove ==
    [c \in {300, 382, 510} |->
        CASE c = 300 -> 144948 [] c = 382 -> 252948 [] c = 510 -> 495385]

\* linearize(c) times 100000; below zero the branch c / 255 / 12.92 applies

\* linearize(c) times 100000; below zero the branch c / 255 / 12.92 applies
Linearize(c) ==
    IF c < 0 THEN -PyRound((-c) * 1000000, 32946)
    ELSE IF c <= 255 THEN LinearTable[c + 1]
    ELSE LinearAbove[c]

\* 0.2126 * lr + 0.7152 * lg + 0.0722 * lb + 0.05, times 100000
WeightedSum(lr, lg, lb) ==
    IF Max(Abs(lr), Max(Abs(lg), Abs(lb))) <= 200000
    THEN PyRound(2126 * lr + 7152 * lg + 722 * lb, 10000) + 5000
    ELSE PyRound(2126 * TruncDiv(lr, 100) + 7152 * TruncDiv(lg, 100)
                   + 722 * TruncDiv(lb, 100), 100) + 5000

\* relative luminance plus 0.05, times 100000
Luminance(rgb) == WeightedSum(Linearize(rgb[1]), Linearize(rgb[2]), Linearize(rgb[3]))

\* round(hi / lo, 2) in hundredths; ok = FALSE is the ZeroDivisionError
ContrastRatio(hi, lo) ==
    IF lo = 0 THEN [ok |-> FALSE, v |-> 0]
    ELSE IF lo > 0 THEN [ok |-> TRUE, v |-> PyRound(100 * hi, lo)]
    ELSE [ok |-> TRUE, v |-> -PyRound(100 * hi, -lo)]

\* max(l1, l2) / min(l1, l2)
ContrastOf(l1, l2) == ContrastRatio(Max(l1, l2), Min(l1, l2))

(* _calculate_contrast(fg, bg) in hundredths: round(max / min, 2).  ok =   *)
(* FALSE is the ZeroDivisionError of a zero denominator.                   *)
CalculateContrast(fg, bg) == ContrastOf(Luminance(fg.rgb), Luminance(bg.rgb))

(***************************************************************************)
(* Visibility checks                                                       *)
(***************************************************************************)
OFFSET_PROPS ==
    {"left", "right", "top", "bottom", "margin-left", "margin-right", "margin-top",
     "margin-bottom", "text-indent"}

OFFSET_THRESHOLD == 1000

\* parsed and abs(parsed) > threshold
LargeOffset(parsed) ==
    IF parsed.st = "raise" THEN "raise"
    ELSE IF parsed.st = "ok" /\ parsed.v # 0 /\ Abs(parsed.v) > OFFSET_THRESHOLD * Milli
    THEN "hit" ELSE "miss"

\* _is_large_offset(value): "hit", "miss", or "raise" when float() fails
IsLargeOffset(value) == LargeOffset(ParseLength(value))

\* what any() yields when it meets offsets with the outcomes in seen
OffsetOutcomes(seen) ==
    IF "raise" \notin seen THEN {IF "hit" \in seen THEN "hit" ELSE "miss"}
    ELSE IF "hit" \in seen THEN {"hit", "raise"}
    ELSE {"raise"}

(* _check_position_offset(style).  any() walks a set of property names, in *)
(* an order Python does not fix, and stops at the first large offset: with *)
(* a large offset and a malformed one both present, either the large one   *)
(* is met first (hit) or the malformed one (raise).                        *)
CheckPositionOffset(style) ==
    OffsetOutcomes({IsLargeOffset(Get(style, p, "0")) : p \in OFFSET_PROPS})

CLIP_PATTERNS == {"inset(100%", "rect(0", "circle(0", "polygon(0 0"}

\* the patterns are sought in value.lower()
HasClipPattern(value) == \E pattern \in CLIP_PATTERNS : Contains(value, pattern)

\* _is_hidden_clip(value)
IsHiddenClip(value) == HasClipPattern(Lower(value))

\* _check_clipping(style)
CheckClipping(style) ==
    \E prop \in {"clip-path", "clip"} : prop \in DOMAIN style /\ IsHiddenClip(style[prop])

FILTER_OPACITY_MAX == 5
FILTER_BLUR_MIN == 10

\* float(...) <= 5
OpacityFilter(op) ==
    IF ~op.ok THEN "raise"
    ELSE IF op.v <= FILTER_OPACITY_MAX * Milli THEN "hit" ELSE "miss"

\* self._parse_length(blur_val) > 10: None is not ordered against a number
BlurFilter(blur) ==
    IF blur.st # "ok" THEN "raise"
    ELSE IF blur.v > FILTER_BLUR_MIN * Milli THEN "hit" ELSE "miss"

\* the filter function in lower case
HidingFilter(filter_func) ==
    IF StartsWith(filter_func, "opacity(")
    THEN OpacityFilter(ParseFloat(StripChars(SliceButLast(filter_func, 7), {"%"})))
    ELSE IF StartsWith(filter_func, "blur(")
    THEN BlurFilter(ParseLength(SliceButLast(filter_func, 5)))
    ELSE "miss"

\* _is_hiding_filter(filter_func): "hit", "miss" or "raise"
IsHidingFilter(filter_func0) == HidingFilter(Lower(filter_func0))

\* any() over the words from word i on: the first word that is not a miss
RECURSIVE AnyFilter(_, _)
FilterFound(words, i, found) == IF found # "miss" THEN found ELSE AnyFilter(words, i + 1)
AnyFilter(words, i) ==
    IF i > Len(words) THEN "miss" ELSE FilterFound(words, i, IsHidingFilter(words[i]))

\* _check_filter(style): any() over the words of the value, in order
CheckFilter(style) ==
    IF "filter" \notin DOMAIN style THEN "miss" ELSE AnyFilter(SplitWs(style["filter"]), 1)

Reason(check, arg) == [check |-> check, arg |-> arg]

OPACITY_MAX_HIDDEN == 10
FONT_MIN_PX == 3
CONTRAST_MIN == 105

Returned(reasons) == [raised |-> FALSE, visible |-> Len(reasons) = 0, reasons |-> reasons]
Raised == [raised |-> TRUE, visible |-> FALSE, reasons |-> << >>]

\* if style.get('visibility') in ('hidden', 'collapse')
VisibilityReason(style) ==
    IF Get(style, "visibility", "") \in {"hidden", "collapse"}
    THEN << Reason("visibility", 0) >> ELSE << >>

\* if style.get('display') == 'none'
DisplayReason(style) ==
    IF Get(style, "display", "") = "none" THEN << Reason("display:none", 0) >> ELSE << >>

\* if float(style.get('opacity', 1)) <= 0.01, for the parsed opacity
OpacityReason(opacity) ==
    IF opacity.v <= OPACITY_MAX_HIDDEN THEN << Reason("opacity", opacity.v) >> ELSE << >>

\* a faulty variant of ColorReason that tests the contrast of equal colours too
ColorReasonBoth(final_fg, final_bg, contrast) ==
    (IF final_fg = final_bg THEN << Reason("same_color", 0) >> ELSE << >>)
    \o (IF contrast.v < CONTRAST_MIN THEN << Reason("low_contrast", contrast.v) >> ELSE << >>)

\* if final_fg == final_bg ... elif contrast < 1.05
ColorReason(final_fg, final_bg, contrast) ==
    IF final_fg = final_bg THEN << Reason("same_color", 0) >>
    ELSE IF contrast.v < CONTRAST_MIN THEN << Reason("low_contrast", contrast.v) >>
    ELSE << >>

\* if self._check_position_offset(style)
OffsetReason(o) == IF o = "hit" THEN << Reason("position_offset", 0) >> ELSE << >>

\* if self._check_clipping(style)
ClippingReason(style) == IF CheckClipping(style) THEN << Reason("clipping", 0) >> ELSE << >>

\* if font_size < 3
FontReason(font) ==
    IF font.v < FONT_MIN_PX * Milli THEN << Reason("font_too_small", font.v) >> ELSE << >>

\* if self._check_filter(style)
FilterReason(filter) == IF filter = "hit" THEN << Reason("filter_effect", 0) >> ELSE << >>

\* bg = self._parse_color(style.get('background-color'), 'bg')
StyleBackground(style) ==
    ParseColor(IF "background-color" \in DOMAIN style
               THEN Dict(style["background-color"]) ELSE [k |-> "none"], "bg")

\* final_bg = self._parse_color(self._blend_colors(bg, DEFAULT_STYLE['background-color']))
FinalBackground(style) ==
    ParseColor(Dict(BlendColors(StyleBackground(style), DEFAULT_STYLE["background-color"])), "fg")

\* the checks from the position offset on, with the results of the calls
\* that may raise: contrast, offset o, font size and filter
Checked(style, final_fg, final_bg, contrast, o, font, filter) ==
    IF ~contrast.ok \/ o = "raise" \/ font.st # "ok" \/ filter = "raise" THEN Raised
    ELSE Returned(VisibilityReason(style)
                    \o DisplayReason(style)
                    \o OpacityReason(ParseFloat(Get(style, "opacity", "1")))
                    \o ColorReason(final_fg, final_bg, contrast)
                    \o OffsetReason(o)
                    \o ClippingReason(style)
                    \o FontReason(font)
                    \o FilterReason(filter))

\* the checks once the two final colours are known
CheckColors(style, final_fg, final_bg, o) ==
    Checked(style, final_fg, final_bg, CalculateContrast(final_fg, final_bg), o,
            ParseLength(Get(style, "font-size", "16px")), CheckFilter(style))

(* _check_visibility(style): the set of results the call can have, one     *)
(* unless the offset check meets a large and a malformed offset together.  *)
(* raised = TRUE stands for the exception that leaves the call; reasons    *)
(* are in the order in which the checks append them.                       *)
CheckVisibility(style) ==
    { CheckColors(style, ParseColor(Dict(style["color"]), "fg"), FinalBackground(style), o)
      : o \in CheckPositionOffset(style) }

(***************************************************************************)
(* The document tree.  A soup is a sequence of elements; element 1 is the  *)
(* BeautifulSoup object itself.  An element has a name, its attributes and *)
(* its contents: text strings, comments and child elements, in order.      *)
(***************************************************************************)
TextItem(s) == [k |-> "text", id |-> 0, s |-> s]
CommentItem(s) == [k |-> "comment", id |-> 0, s |-> s]
TagItem(id) == [k |-> "tag", id |-> id, s |-> ""]
NoAttrs == [a \in {} |-> ""]
NewTag(name, attrs) == [name |-> name, attrs |-> attrs, contents |-> << >>]
ROOT_NAME == "[document]"
NewSoup == << NewTag(ROOT_NAME, NoAttrs) >>

\* the elements html.parser closes as soon as they open
VOID_TAGS == {"area", "base", "br", "col", "embed", "hr", "img", "input", "link",
              "meta", "param", "source", "track", "wbr"}

(* The attributes of a start tag, read from its text after the name:       *)
(* key="value", key=value or a bare key; names are lowercased and the last *)
(* of two equal names wins.                                                *)
RECURSIVE ParseAttrs(_, _)

\* key="value" with the value ending before place ve
QuotedAttr(inner, a, ke, ve) ==
    ParseAttrs(inner, ve + 1) @@ (Lower(SubSeq(inner, a, ke - 1)) :> SubSeq(inner, ke + 2, ve - 1))

\* key=value with the value ending before place ve
BareAttr(inner, a, ke, ve) ==
    ParseAttrs(inner, ve) @@ (Lower(SubSeq(inner, a, ke - 1)) :> SubSeq(inner, ke + 1, ve - 1))

\* the place q of the closing quote, the end of the text when there is none
QuoteEnd(inner, q) == IF q = 0 THEN Len(inner) + 1 ELSE q

\* the key runs from a to ke (exclusive)
AttrKey(inner, a, ke) ==
    IF Ch(inner, ke) # "=" THEN ParseAttrs(inner, ke) @@ (Lower(SubSeq(inner, a, ke - 1)) :> "")
    ELSE IF Ch(inner, ke + 1) = "\""
    THEN QuotedAttr(inner, a, ke, QuoteEnd(inner, FindFrom(inner, "\"", ke + 2)))
    ELSE BareAttr(inner, a, ke, SkipUntil(inner, ke + 1, WsChars))

AttrsAt(inner, a) ==
    IF a > Len(inner) THEN NoAttrs
    ELSE AttrKey(inner, a, SkipUntil(inner, a, WsChars \cup {"="}))

ParseAttrs(inner, i) == AttrsAt(inner, SkipWhile(inner, i, WsChars))

\* append an item to the contents of element cur
AddItem(nodes, cur, item) == [nodes EXCEPT ![cur].contents = Append(@, item)]

\* the stack of open elements after an end tag: the nearest open element of
\* that name is closed with everything above it; no such element, no change
RECURSIVE CloseFrom(_, _, _, _)
CloseFrom(nodes, open, endname, d) ==
    IF d < 2 THEN open
    ELSE IF nodes[open[d]].name = endname THEN SubSeq(open, 1, d - 1)
    ELSE CloseFrom(nodes, open, endname, d - 1)

(* BeautifulSoup(content, 'html.parser') from position i on: comments,     *)
(* end tags (closing the nearest open element of that name, ignored when   *)
(* there is none), start tags and text.  open is the stack of open         *)
(* elements; the parser does not repair the structure.                     *)
RECURSIVE ParseFrom(_, _, _, _)

\* text up to place te
TextTo(s, i, nodes, open, te) ==
    ParseFrom(s, te + 1, AddItem(nodes, open[Len(open)], TextItem(SubSeq(s, i, te))), open)

\* text up to the next "<" at place lt (0: none)
ParseText(s, i, nodes, open, lt) == TextTo(s, i, nodes, open, IF lt = 0 THEN Len(s) ELSE lt - 1)

\* "<!--" at i, "-->" at ce (0: none, and the rest is text)
ParseComment(s, i, nodes, open, ce) ==
    IF ce # 0
    THEN ParseFrom(s, ce + 3,
                   AddItem(nodes, open[Len(open)], CommentItem(SubSeq(s, i + 4, ce - 1))), open)
    ELSE ParseText(s, i, nodes, open, FindFrom(s, "<", i + 1))

\* "</" at i, ">" at gt
ParseEndTag(s, i, nodes, open, gt) ==
    IF gt # 0
    THEN ParseFrom(s, gt + 1, nodes,
                   CloseFrom(nodes, open, Lower(Strip(SubSeq(s, i + 2, gt - 1))), Len(open)))
    ELSE ParseText(s, i, nodes, open, FindFrom(s, "<", i + 1))

\* the new element becomes the last content of the innermost open element
\* and, unless it is closed at once, the innermost open element itself
PushTag(s, gt, nodes, open, selfclose, tag) ==
    ParseFrom(s, gt + 1, Append(AddItem(nodes, open[Len(open)], TagItem(Len(nodes) + 1)), tag),
              IF selfclose \/ tag.name \in VOID_TAGS THEN open ELSE Append(open, Len(nodes) + 1))

\* inner is the text between "<" and ">", its name ending before place ne
OpenTag(s, gt, nodes, open, selfclose, inner, ne) ==
    PushTag(s, gt, nodes, open, selfclose,
            NewTag(Lower(SubSeq(inner, 1, ne - 1)), ParseAttrs(inner, ne)))

StartTag(s, gt, nodes, open, selfclose, inner) ==
    OpenTag(s, gt, nodes, open, selfclose, inner, SkipUntil(inner, 1, WsChars))

\* "<" and a letter at i, ">" at gt
ParseStartTag(s, i, nodes, open, gt) ==
    IF gt = 0 THEN ParseText(s, i, nodes, open, FindFrom(s, "<", i + 1))
    ELSE IF Ch(s, gt - 1) = "/" THEN StartTag(s, gt, nodes, open, TRUE, SubSeq(s, i + 1, gt - 2))
    ELSE StartTag(s, gt, nodes, open, FALSE, SubSeq(s, i + 1, gt - 1))

ParseFrom(s, i, nodes, open) ==
    IF i > Len(s) THEN nodes
    ELSE IF At(s, i, "<!--") THEN ParseComment(s, i, nodes, open, FindFrom(s, "-->", i + 4))
    ELSE IF At(s, i, "</") THEN ParseEndTag(s, i, nodes, open, FindFrom(s, ">", i + 1))
    ELSE IF Ch(s, i) = "<" /\ Ch(s, i + 1) \in UpperChars \cup LowerChars
    THEN ParseStartTag(s, i, nodes, open, FindFrom(s, ">", i + 1))
    ELSE ParseText(s, i, nodes, open, FindFrom(s, "<", i + 1))

BeautifulSoup(content) == ParseFrom(content, 1, NewSoup, << 1 >>)

\* the attributes of a start tag as str(tag) writes them (their order, which
\* the parser does not read, is not kept)
RECURSIVE AttrString(_)
AttrWritten(attrs, k) ==
    " " \o k \o "=\"" \o attrs[k] \o "\"" \o AttrString([x \in DOMAIN attrs \ {k} |-> attrs[x]])
AttrString(attrs) ==
    IF DOMAIN attrs = {} THEN "" ELSE AttrWritten(attrs, CHOOSE x \in DOMAIN attrs : TRUE)

\* str(node): the markup of an element and everything below it
RECURSIVE Serialize(_, _)
RECURSIVE SerializeItems(_, _, _)
SerializeItem(soup, it) ==
    IF it.k = "text" THEN it.s
    ELSE IF it.k = "comment" THEN "<!--" \o it.s \o "-->"
    ELSE Serialize(soup, it.id)
SerializeItems(soup, c, i) ==
    IF i > Len(c) THEN "" ELSE SerializeItem(soup, c[i]) \o SerializeItems(soup, c, i + 1)
TagMarkup(node, inner) ==
    IF node.name = ROOT_NAME THEN inner
    ELSE IF node.name \in VOID_TAGS THEN "<" \o node.name \o AttrString(node.attrs) \o "/>"
    ELSE "<" \o node.name \o AttrString(node.attrs) \o ">" \o inner \o "</" \o node.name \o ">"
Serialize(soup, id) == TagMarkup(soup[id], SerializeItems(soup, soup[id].contents, 1))

\* the Tags among the contents c from place i on, in order
RECURSIVE TagsOf(_, _)
TagsOf(c, i) ==
    IF i > Len(c) THEN << >>
    ELSE (IF c[i].k = "tag" THEN << c[i].id >> ELSE << >>) \o TagsOf(c, i + 1)

\* node.children that are Tags, in order
ChildTags(soup, id) == TagsOf(soup[id].contents, 1)

\* a text string as stripped_strings yields it: stripped, dropped when blank
StrippedText(t) == IF t = "" THEN << >> ELSE << t >>

\* node.stripped_strings: the non-blank text strings below the node, stripped,
\* in document order; comments are not among them
RECURSIVE StrippedStrings(_, _)
RECURSIVE StrippedItems(_, _, _)
StrippedItem(soup, it) ==
    IF it.k = "text" THEN StrippedText(Strip(it.s))
    ELSE IF it.k = "tag" THEN StrippedStrings(soup, it.id)
    ELSE << >>
StrippedItems(soup, c, i) ==
    IF i > Len(c) THEN << >> ELSE StrippedItem(soup, c[i]) \o StrippedItems(soup, c, i + 1)
StrippedStrings(soup, id) == StrippedItems(soup, soup[id].contents, 1)

\* ' '.join(texts) from text i on
RECURSIVE JoinFrom(_, _)
JoinFrom(texts, i) ==
    IF i > Len(texts) THEN ""
    ELSE IF i = Len(texts) THEN texts[i]
    ELSE texts[i] \o " " \o JoinFrom(texts, i + 1)

Join(texts) == JoinFrom(texts, 1)

\* the comments below a node in document order, each with its parent element
RECURSIVE CommentsBelow(_, _)
RECURSIVE CommentItems(_, _, _, _)
CommentsOf(soup, id, it) ==
    IF it.k = "comment" THEN << [text |-> it.s, parent |-> id] >>
    ELSE IF it.k = "tag" THEN CommentsBelow(soup, it.id)
    ELSE << >>
CommentItems(soup, id, c, i) ==
    IF i > Len(c) THEN << >> ELSE CommentsOf(soup, id, c[i]) \o CommentItems(soup, id, c, i + 1)
CommentsBelow(soup, id) == CommentItems(soup, id, soup[id].contents, 1)

\* the elements below a node, in document order
RECURSIVE DescendantTags(_, _)
RECURSIVE DescendantsOf(_, _, _)
DescendantsOf(soup, kids, i) ==
    IF i > Len(kids) THEN << >>
    ELSE << kids[i] >> \o DescendantTags(soup, kids[i]) \o DescendantsOf(soup, kids, i + 1)
DescendantTags(soup, id) == DescendantsOf(soup, ChildTags(soup, id), 1)

(***************************************************************************)
(* Split conditional comments                                              *)
(***************************************************************************)
\* where the regex atom $ matches: at the end of the string, or just before
\* a newline that ends it
AtEndAnchor(s, i) == i = Len(s) + 1 \/ (i = Len(s) /\ Ch(s, i) = "\n")

(* The ways SPLIT_CONDITIONAL_RE, <!$$if\s+([^>]+)$$>([\s\S]*?)<!$$endif$$> *)
(* with IGNORECASE, matches content from position i: << p3, p4, p6 >> with *)
(* the condition in [p3, p4) and the fragment in [p4 + 1, p6).  Each $ is   *)
(* an end anchor, so the characters the pattern asks for after it must     *)
(* stand where the string is over.                                         *)
SplitCandidates(s, i) ==
    IF ~(At(s, i, "<!") /\ AtEndAnchor(s, i + 2) /\ Lower(SubSeq(s, i + 2, Min(i + 3, Len(s)))) = "if")
    THEN {}
    ELSE { c \in ((i + 5)..(Len(s) + 1)) \X ((i + 6)..(Len(s) + 1)) \X ((i + 7)..(Len(s) + 1)) :
             /\ c[1] < c[2] /\ c[2] < c[3]
             /\ \A j \in (i + 4)..(c[1] - 1) : Ch(s, j) \in WsChars
             /\ \A j \in c[1]..(c[2] - 1) : Ch(s, j) # ">"
             /\ AtEndAnchor(s, c[2]) /\ Ch(s, c[2]) = ">"
             /\ At(s, c[3], "<!") /\ AtEndAnchor(s, c[3] + 2)
             /\ Lower(SubSeq(s, c[3] + 2, Min(c[3] + 6, Len(s)))) = "endif"
             /\ AtEndAnchor(s, c[3] + 7) /\ Ch(s, c[3] + 7) = ">" }

\* the candidate the regex engine takes: \s+ and [^>]+ greedy, [\s\S]*? lazy
BestCandidate(cs) ==
    CHOOSE x \in cs : \A y \in cs :
        \/ x[1] > y[1]
        \/ (x[1] = y[1] /\ x[2] > y[2])
        \/ (x[1] = y[1] /\ x[2] = y[2] /\ x[3] <= y[3])

\* match.group(1).strip(), match.group(2) and match.end() of candidate c
SplitMatch(s, c) ==
    [condition |-> Strip(SubSeq(s, c[1], c[2] - 1)),
     html_fragment |-> SubSeq(s, c[2] + 1, c[3] - 1),
     end |-> c[3] + 8]

SplitMatchAt(s, i) == SplitMatch(s, BestCandidate(SplitCandidates(s, i)))

\* SPLIT_CONDITIONAL_RE.finditer(content) from position i on
RECURSIVE SplitFinditer(_, _)
SplitFound(s, m) == << m >> \o SplitFinditer(s, m.end)
SplitFirst(s, starts) ==
    IF starts = {} THEN << >>
    ELSE SplitFound(s, SplitMatchAt(s, CHOOSE x \in starts : \A y \in starts : x <= y))
SplitFinditer(s, i) == SplitFirst(s, {j \in i..Len(s) : SplitCandidates(s, j) # {}})

\* re.sub(re.escape(pat), rep, s): every occurrence of the text pat replaced
RECURSIVE ReplaceAll(_, _, _)
ReplaceAt(s, pat, rep, j) ==
    IF j = 0 THEN s
    ELSE SubSeq(s, 1, j - 1) \o rep \o ReplaceAll(SubSeq(s, j + Len(pat), Len(s)), pat, rep)
ReplaceAll(s, pat, rep) == IF pat = "" THEN s ELSE ReplaceAt(s, pat, rep, FindFrom(s, pat, 1))

\* condition_map[cond]: the fragments of the matches from match i on whose
\* condition is cond
RECURSIVE FragmentsOf(_, _, _)
FragmentsOf(matches, cond, i) ==
    IF i > Len(matches) THEN << >>
    ELSE (IF matches[i].condition = cond THEN << matches[i].html_fragment >> ELSE << >>)
         \o FragmentsOf(matches, cond, i + 1)

\* "".join(fragments) from fragment i on
RECURSIVE Concat(_, _)
Concat(fs, i) == IF i > Len(fs) THEN "" ELSE fs[i] \o Concat(fs, i + 1)

\* merged_html
MergedHtml(cond, fs) == "<!--[cond:" \o cond \o "]-->" \o Concat(fs, 1) \o "<!--[endcond]-->"

\* the replacements of one condition, from fragment k on
RECURSIVE ReplaceEach(_, _, _, _, _)
ReplaceEach(content, cond, fs, merged, k) ==
    IF k > Len(fs) THEN content
    ELSE ReplaceEach(ReplaceAll(content, "<![if " \o cond \o "]>" \o fs[k] \o "<!$$endif$$>", merged),
                     cond, fs, merged, k + 1)

\* if len(fragments) > 1
MergeCondition(content, cond, fs) ==
    IF Len(fs) > 1 THEN ReplaceEach(content, cond, fs, MergedHtml(cond, fs), 1) ELSE content

\* the conditions in the order in which they are first met, from match i on
RECURSIVE ReplaceConditions(_, _, _)
ReplaceConditions(content, matches, i) ==
    IF i > Len(matches) THEN content
    ELSE IF \A j \in 1..(i - 1) : matches[j].condition # matches[i].condition
    THEN ReplaceConditions(MergeCondition(content, matches[i].condition,
                                          FragmentsOf(matches, matches[i].condition, 1)),
                           matches, i + 1)
    ELSE ReplaceConditions(content, matches, i + 1)

\* the text handed to the parser: the fragments of a condition met more than
\* once are merged into one [cond:...] block that replaces each of them
MergedContent(content) == ReplaceConditions(content, SplitFinditer(content, 1), 1)

\* _handle_split_conditionals(content)
HandleSplitConditionals(content) == BeautifulSoup(MergedContent(content))

(***************************************************************************)
(* Pruning, leaves and paths                                               *)
(***************************************************************************)
\* _is_valid_node for an element
IsValidNode(soup, id) == soup[id].name \notin NON_STYLABLE_TAGS

\* _has_any_text
HasAnyText(soup, id) == Len(StrippedStrings(soup, id)) > 0

AnyValid(soup, kids) == \E i \in 1..Len(kids) : IsValidNode(soup, kids[i])

\* _has_meaningful_children
HasMeaningfulChildren(soup, id) == AnyValid(soup, ChildTags(soup, id))

\* child.decompose(): the child leaves its parent's contents
Decompose(soup, parent, child) ==
    [soup EXCEPT ![parent].contents = SelectSeq(@, LAMBDA it : ~(it.k = "tag" /\ it.id = child))]

\* _prune_empty_nodes(node): the tree after the call, and whether node is empty
RECURSIVE PruneEmptyNodes(_, _)
RECURSIVE PruneChildren(_, _, _, _)

\* if self._prune_empty_nodes(child): child.decompose()
PruneChild(id, kid, r) == IF r.is_empty THEN Decompose(r.soup, id, kid) ELSE r.soup

\* for child in list(node.children), from child i on
PruneChildren(soup, id, kids, i) ==
    IF i > Len(kids) THEN soup
    ELSE PruneChildren(PruneChild(id, kids[i], PruneEmptyNodes(soup, kids[i])), id, kids, i + 1)

Pruned(after, id) ==
    [soup |-> after, is_empty |-> ~HasAnyText(after, id) /\ ~HasMeaningfulChildren(after, id)]

\* a faulty variant of PruneEmptyNodes that judges a node before its children are pruned
PruneJudgedFirst(soup, id) ==
    [soup |-> PruneChildren(soup, id, ChildTags(soup, id), 1),
     is_empty |-> ~HasAnyText(soup, id) /\ ~HasMeaningfulChildren(soup, id)]

PruneEmptyNodes(soup, id) == Pruned(PruneChildren(soup, id, ChildTags(soup, id), 1), id)

\* the first body among the elements d from place i on, the soup when none
RECURSIVE FirstBody(_, _, _)
FirstBody(soup, d, i) ==
    IF i > Len(d) THEN 1
    ELSE IF soup[d[i]].name = "body" THEN d[i]
    ELSE FirstBody(soup, d, i + 1)

\* soup.find('body') or soup
FindBody(soup) == FirstBody(soup, DescendantTags(soup, 1), 1)

\* _prune_tree
PruneTree(soup) == PruneEmptyNodes(soup, FindBody(soup)).soup

\* a text string or a comment (a Comment is a str) that is not blank
HasSelfText(c) == \E i \in 1..Len(c) : c[i].k # "tag" /\ Strip(c[i].s) # ""

AllChildrenUnstylable(soup, c) ==
    \A i \in 1..Len(c) : c[i].k = "tag" /\ soup[c[i].id].name \in NON_STYLABLE_TAGS

HasStylable(soup, d) == \E i \in 1..Len(d) : soup[d[i]].name \notin NON_STYLABLE_TAGS

\* _is_leaf
IsLeaf(soup, id) ==
    \/ HasSelfText(soup[id].contents)
    \/ (/\ AllChildrenUnstylable(soup, soup[id].contents)
        /\ ~HasStylable(soup, DescendantTags(soup, id)))

\* the node's own text strings from content i on, stripped, blanks and
\* comments left out
RECURSIVE OwnTexts(_, _)
OwnText(it) == IF it.k = "text" /\ Strip(it.s) # "" THEN << Strip(it.s) >> ELSE << >>
OwnTexts(c, i) == IF i > Len(c) THEN << >> ELSE OwnText(c[i]) \o OwnTexts(c, i + 1)

\* _get_node_text
GetNodeText(soup, id) == Strip(Join(OwnTexts(soup[id].contents, 1)))

\* _get_link_text
GetLinkText(soup, id) == Join(StrippedStrings(soup, id))

(***************************************************************************)
(* Records and the walk of one path                                        *)
(***************************************************************************)
\* a faulty variant of HiddenReasons that drops the reasons
NoReasons(v) == << >>

\* "hidden_reasons": reasons if not visible else []
HiddenReasons(v) == IF ~v.visible THEN v.reasons ELSE << >>

\* the record analyze_paths appends for a node with text
TextRecord(text, style, v) ==
    [text |-> text, type |-> "text", style |-> style, visible |-> v.visible,
     hidden_reasons |-> HiddenReasons(v)]

\* the record _process_anchor_tag returns
LinkRecord(text, url, style, v) ==
    [text |-> text, type |-> "link", url |-> url, style |-> style, visible |-> v.visible,
     hidden_reasons |-> HiddenReasons(v)]

\* the record of a plain comment: it has neither style nor hidden_reasons
CommentRecord(text) == [text |-> text, type |-> "html_comment", visible |-> FALSE]

\* {**elem, "type": "conditional_comment", "visible": False}
ConditionalRecord(elem) == [elem EXCEPT !.type = "conditional_comment", !.visible = FALSE]

(* What the walk of a path, or a part of it, comes to: the records it      *)
(* appends and whether a text record among them is hidden, or the          *)
(* exception that leaves it.                                               *)
Walked(records, hidden) == [raised |-> FALSE, records |-> records, hidden |-> hidden]
WalkRaised == [raised |-> TRUE, records |-> << >>, hidden |-> FALSE]

\* the link record for one result v of _check_visibility
LinkChecked(text, url, style, v) ==
    IF v.raised THEN WalkRaised ELSE Walked(<< LinkRecord(text, url, style, v) >>, FALSE)

LinkStyled(text, url, link_style) ==
    IF ~link_style.ok THEN {WalkRaised}
    ELSE { LinkChecked(text, url, link_style.style, v) : v \in CheckVisibility(link_style.style) }

\* if not text: return None
LinkWithText(soup, id, inherited_style, text) ==
    IF text = "" THEN {Walked(<< >>, FALSE)}
    ELSE LinkStyled(text, Get(soup[id].attrs, "href", ""),
                    ParseNodeStyle(soup[id], inherited_style))

\* _process_anchor_tag(node, inherited_style) and the append of its result:
\* the outcomes the call can have.  A link never touches file_visible.
ProcessAnchorTag(soup, id, inherited_style) ==
    LinkWithText(soup, id, inherited_style, GetLinkText(soup, id))

\* the text record for one result v of _check_visibility;
\* if not visible: file_visible = False
TextChecked(text, style, v) ==
    IF v.raised THEN WalkRaised ELSE Walked(<< TextRecord(text, style, v) >>, ~v.visible)

\* if text_content: ...
OwnRecords(text_content, style) ==
    IF text_content = "" THEN {Walked(<< >>, FALSE)}
    ELSE { TextChecked(text_content, style, v) : v \in CheckVisibility(style) }

\* one outcome of a node followed by one outcome of the rest of the path
WalkThen(o, r) ==
    IF o.raised \/ r.raised THEN WalkRaised
    ELSE Walked(o.records \o r.records, o.hidden \/ r.hidden)

WalkBoth(own, rest) == UNION { { WalkThen(o, r) : r \in rest } : o \in own }

(* The body of the loop "for node in path" of analyze_paths from node i of *)
(* the path on.  An anchor ends the walk of its path (break).              *)
RECURSIVE WalkPath(_, _, _, _)

WalkNode(soup, path, i, current_style) ==
    IF ~current_style.ok THEN {WalkRaised}
    ELSE WalkBoth(OwnRecords(GetNodeText(soup, path[i]), current_style.style),
                  WalkPath(soup, path, i + 1, InheritedOf(current_style.style)))

WalkPath(soup, path, i, inherited_style) ==
    IF i > Len(path) THEN {Walked(<< >>, FALSE)}
    ELSE IF soup[path[i]].name = "a" THEN ProcessAnchorTag(soup, path[i], inherited_style)
    ELSE WalkNode(soup, path, i, ParseNodeStyle(soup[path[i]], inherited_style))

(***************************************************************************)
(* The analyzer                                                            *)
(***************************************************************************)
\* nested analyzers Python's recursion limit leaves room for
MaxNesting == 3

\* the analyzer once __init__ has pruned the tree, with the state of
\* collect_paths and analyze_paths before their loops: the queue holding
\* the root, no paths, no results.  pi is the path analyze_paths is at, ci
\* the comment _process_comments is at and cres its results.
NewAnalyzer(soup) ==
    [soup |-> soup,
     queue |-> << [node |-> FindBody(soup), path |-> << >>] >>,
     paths |-> << >>, pi |-> 1, results |-> << >>, file_visible |-> TRUE,
     ci |-> 1, cres |-> << >>]

\* DOMAnalyzer(html_content)
DOMAnalyzer(html_content) == NewAnalyzer(PruneTree(HandleSplitConditionals(html_content)))

\* for child in node.children: if self._is_valid_node(child): queue.append(...)
RECURSIVE QueueEntries(_, _, _, _)
QueueEntries(soup, kids, new_path, i) ==
    IF i > Len(kids) THEN << >>
    ELSE (IF IsValidNode(soup, kids[i]) THEN << [node |-> kids[i], path |-> new_path] >>
          ELSE << >>)
         \o QueueEntries(soup, kids, new_path, i + 1)

\* the entry (node, path) taken off the queue, with new_path = path + (node,)
Collected(f, node, new_path) ==
    IF ~IsValidNode(f.soup, node) THEN [f EXCEPT !.queue = Tail(@)]
    ELSE IF IsLeaf(f.soup, node) THEN [f EXCEPT !.queue = Tail(@), !.paths = Append(@, new_path)]
    ELSE [f EXCEPT !.queue = Tail(@) \o QueueEntries(f.soup, ChildTags(f.soup, node), new_path, 1)]

\* one turn of the while loop of collect_paths
CollectOne(f) == Collected(f, f.queue[1].node, Append(f.queue[1].path, f.queue[1].node))

\* 'conditional-container' in parent.get('class', [])
HasContainerClass(classes) == \E k \in 1..Len(classes) : classes[k] = "conditional-container"

\* is the comment the [cond:...] marker of a conditional container
IsConditional(soup, c) ==
    /\ StartsWith(Strip(c.text), "[cond:")
    /\ soup[c.parent].name = "div"
    /\ HasContainerClass(SplitWs(Get(soup[c.parent].attrs, "class", "")))

\* what process_html_file ends with: an exception caught and printed (no
\* line in the log), or the records written and the verdict logged
Verdict(raised, results, file_visible) ==
    [raised |-> raised, results |-> results, file_visible |-> file_visible,
     log |-> IF raised THEN ""
             ELSE IF file_visible THEN "TEXT_ALL_VISIBLE" ELSE "FOUND_INVISIBLE"]

NoVerdict == [raised |-> FALSE, results |-> << >>, file_visible |-> TRUE, log |-> ""]

VARIABLES pc, content, frames, outcome, arg, res

vars == << pc, content, frames, outcome, arg, res >>

\* the analyzer that is running: the innermost of the nested ones
Top == frames[Len(frames)]
Comments == CommentsBelow(Top.soup, 1)
InComments == Top.queue = << >> /\ Top.pi > Len(Top.paths)

(***************************************************************************)
(* The documents                                                           *)
(***************************************************************************)
\* elements of a document besides the root
MaxNodes == 3

Element(open, inner, close) == [open |-> open, inner |-> inner, close |-> close]

Archetypes ==
    { Element("<div>", "", "</div>"),
      Element("<div>", "t", "</div>"),
      Element("<div style=\"display:none\">", "h", "</div>"),
      Element("<a href=\"u\">", "", "</a>"),
      Element("<a href=\"u\" style=\"display:none\">", "k", "</a>"),
      Element("<div>", "<!-- c -->", "</div>"),
      Element("<div>", "<!--[if mso]-->A<!--[endif]-->", "</div>"),
      Element("<div class=\"conditional-container\">", "<!--[cond:mso]-->B", "</div>"),
      Element("<div class=\"conditional-container\">", "<!--[cond:mso]-->", "</div>"),
      Element("<title>", "x", "</title>"),
      Element("<body>", "", "</body>"),
      Element("<div style=\"filter:opacity(5%)\">", "r", "</div>") }

\* the markup of element i and the elements below it; par[j] is the parent
\* of element j (0 for the root), and children follow their parent's text
RECURSIVE Markup(_, _, _)
RECURSIVE MarkupBelow(_, _, _, _)
MarkupBelow(par, arch, i, j) ==
    IF j > Len(par) THEN ""
    ELSE (IF par[j] = i THEN Markup(par, arch, j) ELSE "") \o MarkupBelow(par, arch, i, j + 1)
Markup(par, arch, i) ==
    IF i = 0 THEN MarkupBelow(par, arch, 0, 1)
    ELSE arch[i].open \o arch[i].inner \o MarkupBelow(par, arch, i, i + 1) \o arch[i].close

Documents ==
    UNION { { Markup(par, arch, 0) :
                par \in {p \in [1..n -> 0..(n - 1)] : \A j \in 1..n : p[j] < j},
                arch \in [1..n -> Archetypes] }
            : n \in 0..MaxNodes }

Init ==
    /\ pc = "input"
    /\ content \in Documents
    /\ frames = << >>
    /\ outcome = NoVerdict
    /\ arg = << >>
    /\ res = << >>

\* process_html_file constructs the analyzer of the file's content
Construct ==
    /\ pc = "input"
    /\ frames' = << DOMAnalyzer(content) >>
    /\ pc' = "run"
    /\ UNCHANGED << content, outcome, arg, res >>

\* collect_paths takes the next entry off its queue
CollectStep ==
    /\ pc = "run"
    /\ Top.queue # << >>
    /\ frames' = [frames EXCEPT ![Len(frames)] = CollectOne(@)]
    /\ UNCHANGED << pc, content, outcome, arg, res >>

\* a faulty variant of PathWalked that puts the records of a path first
PathWalkedFirst(f, o) ==
    [f EXCEPT !.pi = @ + 1, !.results = o.records \o @, !.file_visible = @ /\ ~o.hidden]

\* the walk of a path has appended its records
PathWalked(f, o) ==
    [f EXCEPT !.pi = @ + 1, !.results = @ \o o.records, !.file_visible = @ /\ ~o.hidden]

(* analyze_paths walks the next path.  When a style or a visibility check  *)
(* raises, the exception reaches process_html_file, which prints it and    *)
(* writes neither records nor a verdict.                                   *)
AnalyzePath ==
    /\ pc = "run"
    /\ Top.queue = << >>
    /\ Top.pi <= Len(Top.paths)
    /\ \E o \in WalkPath(Top.soup, Top.paths[Top.pi], 1, DEFAULT_STYLE) :
          IF o.raised
          THEN /\ pc' = "done"
               /\ outcome' = Verdict(TRUE, << >>, TRUE)
               /\ UNCHANGED frames
          ELSE /\ frames' = [frames EXCEPT ![Len(frames)] = PathWalked(@, o)]
               /\ UNCHANGED << pc, outcome >>
    /\ UNCHANGED << content, arg, res >>

\* a comment that opens no conditional container: a [cond: marker elsewhere
\* leaves no record, any other comment an html_comment record
CommentSeen(f, text) ==
    [f EXCEPT !.ci = @ + 1,
              !.cres = IF StartsWith(text, "[cond:") THEN @ ELSE Append(@, CommentRecord(text))]

\* _process_comments meets a comment that opens no conditional container
ProcessComment ==
    /\ pc = "run"
    /\ InComments
    /\ Top.ci <= Len(Comments)
    /\ ~IsConditional(Top.soup, Comments[Top.ci])
    /\ frames' = [frames EXCEPT ![Len(frames)] = CommentSeen(@, Strip(Comments[Top.ci].text))]
    /\ UNCHANGED << pc, content, outcome, arg, res >>

(* _process_comments meets the marker of a conditional container and       *)
(* constructs the analyzer of str(parent); with the recursion limit        *)
(* reached the call raises RecursionError instead.                         *)
EnterConditional ==
    /\ pc = "run"
    /\ InComments
    /\ Top.ci <= Len(Comments)
    /\ IsConditional(Top.soup, Comments[Top.ci])
    /\ IF Len(frames) < MaxNesting
       THEN /\ frames' = Append(frames, DOMAnalyzer(Serialize(Top.soup, Comments[Top.ci].parent)))
            /\ UNCHANGED << pc, outcome >>
       ELSE /\ pc' = "done"
            /\ outcome' = Verdict(TRUE, << >>, TRUE)
            /\ UNCHANGED frames
    /\ UNCHANGED << content, arg, res >>

\* results.extend({**elem, ...} for elem in elements), from element k on
RECURSIVE Tagged(_, _)
Tagged(elements, k) ==
    IF k > Len(elements) THEN << >>
    ELSE << ConditionalRecord(elements[k]) >> \o Tagged(elements, k + 1)

\* the caller of a nested analyzer that returned elements
NestedReturned(f, elements) == [f EXCEPT !.ci = @ + 1, !.cres = @ \o Tagged(elements, 1)]

\* a nested analyze_paths returns: its records join the caller's comment
\* results as conditional_comment records
ReturnNested ==
    /\ pc = "run"
    /\ InComments
    /\ Top.ci > Len(Comments)
    /\ Len(frames) > 1
    /\ frames' = [SubSeq(frames, 1, Len(frames) - 1) EXCEPT ![Len(frames) - 1] =
                     NestedReturned(@, Top.results \o Top.cres)]
    /\ UNCHANGED << pc, content, outcome, arg, res >>

\* the outermost analyze_paths returns and process_html_file logs the verdict
Finish ==
    /\ pc = "run"
    /\ InComments
    /\ Top.ci > Len(Comments)
    /\ Len(frames) = 1
    /\ pc' = "done"
    /\ outcome' = Verdict(FALSE, Top.results \o Top.cres, Top.file_visible)
    /\ UNCHANGED << content, frames, arg, res >>

Next ==
    \/ Construct
    \/ CollectStep
    \/ AnalyzePath
    \/ ProcessComment
    \/ EnterConditional
    \/ ReturnNested
    \/ Finish

Spec == Init /\ [][Next]_vars

(***************************************************************************)
(* The colour functions on their own: _parse_color on values of every      *)
(* input form, then _blend_colors on two parsed colours.  arg holds the    *)
(* values given, res the colours returned.                                 *)
(***************************************************************************)
Tuple(t) == [k |-> "tuple", t |-> t]
List(t) == [k |-> "list", t |-> t]

ColorInputs ==
    { Str("#fff"), Str("#ff000080"), Str("red"), Str("transparent"), Str("nonsense"),
      Str("rgb(300,0,0)"), Str("rgb(10,20,30)"), Str("rgba(0,0,0,2)"), Str("rgba(0,0,0,0.5)"),
      Str("hsl(0,0%,150%)"), Str("hsl(120,100%,50%)"),
      Tuple(<< 300, -5, 0 >>), List(<< 1, 2, 3, 2 * Milli >>), Tuple(<< 1, 2 >>),
      Dict([rgb |-> << 300, 0, 0 >>, alpha |-> Milli]), Dict([rgb |-> << 0, 0, 0 >>]),
      [k |-> "none"] }

\* colours parsed before they are blended
MaxColors == 2

InitColor ==
    /\ pc = "color"
    /\ content = ""
    /\ frames = << >>
    /\ outcome = NoVerdict
    /\ arg = << >>
    /\ res = << >>

\* _parse_color(value, colortype)
ParseStep ==
    /\ pc = "color"
    /\ Len(res) < MaxColors
    /\ \E value \in ColorInputs, colortype \in {"fg", "bg"} :
          /\ arg' = Append(arg, value)
          /\ res' = Append(res, ParseColor(value, colortype))
    /\ UNCHANGED << pc, content, frames, outcome >>

\* _blend_colors(fg, bg) on the two colours parsed
BlendStep ==
    /\ pc = "color"
    /\ Len(res) = MaxColors
    /\ res' = Append(res, BlendColors(res[1], res[2]))
    /\ pc' = "blended"
    /\ UNCHANGED << content, frames, outcome, arg >>

NextColor ==
    \/ ParseStep
    \/ BlendStep

SpecColor == InitColor /\ [][NextColor]_vars

(***************************************************************************)
(* The cascade on its own: _parse_node_style along a path of elements,     *)
(* each handing InheritedOf its resolved style to the next as              *)
(* analyze_paths does, and _check_visibility on the last style resolved.   *)
(* arg holds the path walked so far, res the result of the call.           *)
(***************************************************************************)
\* what an element declares: its tag, a colour ("" for none), an opacity
\* ("" for none), further inline declarations, further attributes
Decl(name, color, opacity, other, legacy) ==
    [name |-> name, color |-> color, opacity |-> opacity, other |-> other, legacy |-> legacy]

ColorDecls ==
    { Decl(n, c, o, "", NoAttrs) :
        n \in {"div", "font", "td"}, c \in {"transparent", "rgba(0,0,0,0.5)"}, o \in {"", "0.5"} }
    \cup { Decl("div", c, "", "", NoAttrs) : c \in {"red", "#fefefe"} }
    \cup { Decl("div", "", o, "", NoAttrs) : o \in {"0.5", "0"} }

OtherDecls ==
    { Decl("div", "", "", x, NoAttrs) :
        x \in { "", "display:none", "visibility:hidden", "background-color:red",
                "left:2000px;top:1.2.3px", "margin-left:1.2.3px",
                "text-indent:-9999px;clip:rect(0,0,0,0)", "font-size:1px",
                "font-size:1.2.3px", "filter:opacity(5%)", "filter:blur(abc)",
                "filter:blur(2px) blur(20px)", "width:5px;text-align:center" } }
    \cup { Decl("td", "", "", "", a) :
             a \in { [x \in {"width", "align"} |-> IF x = "width" THEN "100" ELSE "middle"],
                     [x \in {"bgcolor"} |-> "#000"] } }

Declarations == ColorDecls \cup OtherDecls

\* the inline style text of a declaration; a font or td element carries its
\* colour in an attribute instead
InlineStyle(d) ==
    (IF d.opacity = "" THEN "" ELSE "opacity:" \o d.opacity \o ";")
    \o (IF d.color = "" \/ d.name # "div" THEN "" ELSE "color:" \o d.color \o ";")
    \o d.other

\* the attribute that carries the colour of a font or td element
ColorAttrs(d) ==
    IF d.color = "" \/ d.name = "div" THEN NoAttrs
    ELSE IF d.name = "font" THEN [x \in {"color"} |-> d.color]
    ELSE [x \in {"text"} |-> d.color]

StyleAttrs(text) == IF text = "" THEN NoAttrs ELSE [x \in {"style"} |-> text]

\* the element a declaration stands for
NodeOf(d) == [name |-> d.name, attrs |-> StyleAttrs(InlineStyle(d)) @@ ColorAttrs(d) @@ d.legacy]

\* elements on a path
MaxDepth == 3

\* inherited_style at the place the walk has reached
InheritedNow == IF arg = << >> THEN DEFAULT_STYLE ELSE InheritedOf(arg[Len(arg)].style)

InitStyle ==
    /\ pc = "style"
    /\ content = ""
    /\ frames = << >>
    /\ outcome = NoVerdict
    /\ arg = << >>
    /\ res = << >>

\* the element of declaration d has been resolved to st under inherited
Resolved(d, inherited, st) ==
    /\ arg' = Append(arg, [decl |-> d, inherited |-> inherited, style |-> st.style])
    /\ pc' = IF st.ok THEN "style" ELSE "raised"

\* current_style = self._parse_node_style(node, inherited_style); the
\* ValueError of a font size leaves the walk
CascadeStep ==
    /\ pc = "style"
    /\ Len(arg) < MaxDepth
    /\ \E d \in Declarations : Resolved(d, InheritedNow, ParseNodeStyle(NodeOf(d), InheritedNow))
    /\ UNCHANGED << content, frames, outcome, res >>

\* visible, reasons = self._check_visibility(current_style)
CheckStep ==
    /\ pc = "style"
    /\ arg # << >>
    /\ res' \in CheckVisibility(arg[Len(arg)].style)
    /\ pc' = "checked"
    /\ UNCHANGED << content, frames, outcome, arg >>

NextStyle ==
    \/ CascadeStep
    \/ CheckStep

SpecStyle == InitStyle /\ [][NextStyle]_vars

(***************************************************************************)
(* Properties                                                              *)
(***************************************************************************)
\* process_html_file has ended with the records and the verdict of
\* analyze_paths
Analyzed == pc = "done" /\ ~outcome.raised

\* the records of analyze_paths whose type is among types
RecordsOfType(types) ==
    {i \in 1..Len(outcome.results) : outcome.results[i].type \in types}

\* C1: after analyze_paths the verdict file_visible is false if and only if
\* some record of type text or link has visible = false.
VerdictFollowsTextAndLinks ==
    Analyzed =>
        (~outcome.file_visible
            <=> \E i \in RecordsOfType({"text", "link"}) : ~outcome.results[i].visible)

\* the elements at or below id that are reached through stylable elements
\* only, are neither anchors nor inside one, and have direct text
RECURSIVE TextElements(_, _)
TextElementsBelow(soup, id, kids) ==
    (IF GetNodeText(soup, id) # "" THEN {id} ELSE {})
    \cup UNION { TextElements(soup, kids[k]) : k \in 1..Len(kids) }
TextElements(soup, id) ==
    IF ~IsValidNode(soup, id) \/ soup[id].name = "a" THEN {}
    ELSE TextElementsBelow(soup, id, ChildTags(soup, id))

\* as many text records carry the text t as elements among ids have it as
\* their direct text
SameTextCount(soup, ids, t) ==
    Cardinality({id \in ids : GetNodeText(soup, id) = t})
        = Cardinality({i \in RecordsOfType({"text"}) : outcome.results[i].text = t})

EveryTextCounted(soup, ids) ==
    \A t \in {GetNodeText(soup, id) : id \in ids}
             \cup {outcome.results[i].text : i \in RecordsOfType({"text"})} :
        SameTextCount(soup, ids, t)

\* C2: every element reachable from the content root through stylable
\* elements only, not inside an anchor, with direct text gets exactly one
\* text record carrying that text.
EveryTextRunRecorded ==
    Analyzed => EveryTextCounted(frames[1].soup, TextElements(frames[1].soup, FindBody(frames[1].soup)))

\* the alpha of the colour an element declares
DeclaredAlpha(d) == ParseColor(Str(d.color), "fg").alpha

\* the opacity the element resolves to when it declares no colour
OpacityWithoutColor(e) ==
    ParseNodeStyle(NodeOf([e.decl EXCEPT !.color = ""]), e.inherited).style["opacity"]

\* inherited opacity times own factor times the alpha of the colour
FoldedOpacity(e) == ParseOpacity(Str(FormatFloat(DeclaredAlpha(e.decl))), OpacityWithoutColor(e))

\* C3: when _parse_node_style sets a node's colour, the colour's alpha is
\* folded into the resolved opacity (inherited opacity times own factor times
\* alpha), and a fully transparent colour is reported hidden by the opacity
\* check.
AlphaFoldedIntoOpacity ==
    /\ \A i \in 1..Len(arg) :
          (pc \in {"style", "checked"} /\ arg[i].decl.color # "")
              => arg[i].style["opacity"] = FoldedOpacity(arg[i])
    /\ (pc = "checked" /\ ~res.raised /\ arg[Len(arg)].decl.color = "transparent")
          => \E k \in 1..Len(res.reasons) : res.reasons[k].check = "opacity"

\* C4: _check_visibility returns a result for every style _parse_node_style
\* resolves, and no malformed value makes either of them raise.
ChecksNeverRaise ==
    /\ pc # "raised"
    /\ pc = "checked" => ~res.raised

\* the text has two blocks <!--[if mso]-->...<!--[endif]-->
SecondBlockAfter(s, first) == first # 0 /\ FindFrom(s, "<!--[if mso]-->", first + 1) # 0
HasTwoBlocks(s) == SecondBlockAfter(s, FindFrom(s, "<!--[if mso]-->", 1))

\* C5: two blocks with the same condition are merged into one block, and
\* analyze_paths returns the records of the merged block as
\* conditional_comment records with visible = false.
SplitBlocksMerged ==
    (pc = "done" /\ HasTwoBlocks(content)) =>
        /\ ~outcome.raised
        /\ Contains(MergedContent(content), "<!--[cond:mso]-->")
        /\ RecordsOfType({"conditional_comment"}) # {}
        /\ \A i \in 1..Len(outcome.results) :
              outcome.results[i].text = "A" =>
                  /\ outcome.results[i].type = "conditional_comment"
                  /\ ~outcome.results[i].visible

\* the properties an element writes into its style itself
RECURSIVE DeclaredKeys(_, _)
DeclaredKeys(pairs, i) ==
    IF i > Len(pairs) THEN {}
    ELSE {IF Lower(pairs[i][1]) = "bgcolor" THEN "background-color" ELSE Lower(pairs[i][1])}
         \cup DeclaredKeys(pairs, i + 1)
Declares(d) ==
    (IF d.color = "" THEN {} ELSE {"color", "opacity"})
    \cup (IF d.opacity = "" THEN {} ELSE {"opacity"})
    \cup DeclaredKeys(StylePropFindall(d.other, 1), 1)
    \cup {CASE a = "align" -> "text-align" [] a = "bgcolor" -> "background-color" [] OTHER -> a :
            a \in DOMAIN d.legacy}

\* the properties declared by the elements after place i up to place j
DeclaredBetween(i, j) == UNION { Declares(arg[k].decl) : k \in (i + 1)..j }

\* C6: along a path an inheritable property of an ancestor that is not
\* redeclared below has the same value in every descendant's style, and a
\* property outside the inheritable set is in a descendant's style only when
\* the descendant declares it itself.
CascadeInheritsOnlyInheritable ==
    \A i \in 1..Len(arg), j \in 1..Len(arg) :
        (i < j /\ pc \in {"style", "checked"}) =>
            /\ \A k \in (DOMAIN arg[i].style \cap INHERITABLE_PROPS) \ DeclaredBetween(i, j) :
                  k \in DOMAIN arg[j].style /\ arg[j].style[k] = arg[i].style[k]
            /\ \A k \in DOMAIN arg[j].style \ INHERITABLE_PROPS : k \in Declares(arg[j].decl)

\* an ancestor declares a colour, the next element a width and an alignment,
\* and the last one neither
CascadeWalked ==
    /\ pc = "style"
    /\ Len(arg) = 3
    /\ arg[1].decl = Decl("div", "red", "", "", NoAttrs)
    /\ arg[2].decl = Decl("div", "", "", "width:5px;text-align:center", NoAttrs)
    /\ arg[3].decl = Decl("div", "", "", "display:none", NoAttrs)

\* every record of every analyzer, returned or still being gathered
AllRecords ==
    UNION { {frames[f].results[i] : i \in 1..Len(frames[f].results)}
            \cup {frames[f].cres[i] : i \in 1..Len(frames[f].cres)} : f \in 1..Len(frames) }
    \cup {outcome.results[i] : i \in 1..Len(outcome.results)}

\* C7: every record that carries hidden_reasons has an empty list if and only
\* if its visible field is true.
ReasonsEmptyIffVisible ==
    \A r \in AllRecords :
        "hidden_reasons" \in DOMAIN r => (r.hidden_reasons = << >> <=> r.visible)

\* analyze_paths has returned a visible record and a hidden one, each with
\* its hidden_reasons
VisibleAndHiddenReturned ==
    /\ Analyzed
    /\ \E i \in RecordsOfType({"text", "link"}) : outcome.results[i].visible
    /\ \E i \in RecordsOfType({"text"}) : ~outcome.results[i].visible
    /\ \E i \in RecordsOfType({"link"}) : ~outcome.results[i].visible

\* a colour with alpha in [0, 1] and every channel in [0, 255]
InRange(c) == c.alpha \in 0..Milli /\ \A i \in 1..3 : c.rgb[i] \in 0..255

\* C8: every colour _parse_color and _blend_colors produce has alpha in
\* [0, 1] and each rgb channel in [0, 255].
ColorsInRange == pc \in {"color", "blended"} => \A i \in 1..Len(res) : InRange(res[i])

\* the place of the first anchor on a path, 0 when it has none
RECURSIVE FirstAnchor(_, _, _)
FirstAnchor(soup, path, k) ==
    IF k > Len(path) THEN 0
    ELSE IF soup[path[k]].name = "a" THEN k
    ELSE FirstAnchor(soup, path, k + 1)

\* the anchors with text at which the walk of some collected path ends
WalkedAnchors(f) ==
    { f.paths[p][FirstAnchor(f.soup, f.paths[p], 1)] :
        p \in {q \in 1..Len(f.paths) : FirstAnchor(f.soup, f.paths[q], 1) # 0} }

LinkedAnchors(f) == {id \in WalkedAnchors(f) : GetLinkText(f.soup, id) # ""}

\* the places of a path above its first anchor whose element has direct text
TextPlaces(soup, path, a) ==
    {k \in 1..(IF a = 0 THEN Len(path) ELSE a - 1) : GetNodeText(soup, path[k]) # ""}

\* the text records of the elements above the first anchor of each path
RECURSIVE TextsAboveAnchors(_, _)
TextsAboveAnchors(f, p) ==
    IF p > Len(f.paths) THEN 0
    ELSE Cardinality(TextPlaces(f.soup, f.paths[p], FirstAnchor(f.soup, f.paths[p], 1)))
         + TextsAboveAnchors(f, p + 1)

\* C9: each anchor with text that lies on a collected path gets exactly one
\* link record for the whole document, and no node below an anchor gets a
\* text record.
OneLinkPerAnchor ==
    Analyzed =>
        /\ Cardinality(RecordsOfType({"link"})) = Cardinality(LinkedAnchors(frames[1]))
        /\ Cardinality(RecordsOfType({"text"})) = TextsAboveAnchors(frames[1], 1)

\* the place of each check in the order of _check_visibility
CheckRank ==
    [c \in {"visibility", "display:none", "opacity", "same_color", "low_contrast",
            "position_offset", "clipping", "font_too_small", "filter_effect"} |->
        CASE c = "visibility" -> 1 [] c = "display:none" -> 2 [] c = "opacity" -> 3
          [] c \in {"same_color", "low_contrast"} -> 4 [] c = "position_offset" -> 5
          [] c = "clipping" -> 6 [] c = "font_too_small" -> 7 [] c = "filter_effect" -> 8]

Given(reasons, check) == \E k \in 1..Len(reasons) : reasons[k].check = check

\* the foreground the colour check compares
ForegroundOf(style) == ParseColor(Dict(style["color"]), "fg")

\* each check of a style that triggers is among the reasons, and no other
TriggeredChecksGiven(style, reasons) ==
    /\ Given(reasons, "visibility")
          <=> ("visibility" \in DOMAIN style /\ style["visibility"] \in {"hidden", "collapse"})
    /\ Given(reasons, "display:none") <=> ("display" \in DOMAIN style /\ style["display"] = "none")
    /\ Given(reasons, "opacity") <=> ParseFloat(style["opacity"]).v <= 10
    /\ Given(reasons, "same_color") <=> ForegroundOf(style) = FinalBackground(style)
    /\ Given(reasons, "low_contrast")
          <=> (/\ ForegroundOf(style) # FinalBackground(style)
               /\ CalculateContrast(ForegroundOf(style), FinalBackground(style)).v < 105)
    /\ Given(reasons, "position_offset")
          <=> \E p \in OFFSET_PROPS \cap DOMAIN style :
                 /\ ParseLength(style[p]).st = "ok"
                 /\ Abs(ParseLength(style[p]).v) > 1000 * Milli
    /\ Given(reasons, "clipping")
          <=> \E p \in {"clip", "clip-path"} \cap DOMAIN style :
                 \E pattern \in CLIP_PATTERNS : Contains(Lower(style[p]), pattern)
    /\ Given(reasons, "font_too_small") <=> ParseLength(style["font-size"]).v < 3 * Milli
    /\ Given(reasons, "filter_effect") <=> CheckFilter(style) = "hit"

FilterWords ==
    { "opacity(5%)", "opacity(3%)", "opacity(6%)", "opacity(50%)", "blur(20px)", "blur(10px)",
      "blur(2px)", "blur(1em)", "Blur(11px)", "brightness(50%)" }

\* functions in a filter value
MaxFilters == 2

InitFilter ==
    /\ pc = "filter"
    /\ content = ""
    /\ frames = << >>
    /\ outcome = NoVerdict
    /\ arg = << >>
    /\ res = << >>

\* the style of a node whose inline style declares the filter words
FilterStyle(words) ==
    ParseNodeStyle([name |-> "div", attrs |-> StyleAttrs("filter:" \o Join(words))],
                   DEFAULT_STYLE).style

\* one more function is written into the filter value
FilterStep ==
    /\ pc = "filter"
    /\ Len(arg) < MaxFilters
    /\ \E w \in FilterWords : arg' = Append(arg, w)
    /\ UNCHANGED << pc, content, frames, outcome, res >>

\* visible, reasons = self._check_visibility(current_style)
FilterCheckStep ==
    /\ pc = "filter"
    /\ arg # << >>
    /\ res' \in CheckVisibility(FilterStyle(arg))
    /\ pc' = "filtered"
    /\ UNCHANGED << content, frames, outcome, arg >>

NextFilter ==
    \/ FilterStep
    \/ FilterCheckStep

SpecFilter == InitFilter /\ [][NextFilter]_vars

\* the argument of a filter function: the text between "name(" and ")"
FilterArgument(word, name) == SubSeq(word, Len(name) + 2, Len(word) - 1)

\* opacity(x) with x at most 5%
IsLowOpacity(word) ==
    /\ StartsWith(Lower(word), "opacity(")
    /\ ParseFloat(StripChars(FilterArgument(word, "opacity"), {"%"})).ok
    /\ ParseFloat(StripChars(FilterArgument(word, "opacity"), {"%"})).v <= 5 * Milli

\* blur(x) with x above 10px
IsStrongBlur(word) ==
    /\ StartsWith(Lower(word), "blur(")
    /\ ParseLength(Lower(FilterArgument(word, "blur"))).st = "ok"
    /\ ParseLength(Lower(FilterArgument(word, "blur"))).v > 10 * Milli

HidingWords(words) == {k \in 1..Len(words) : IsLowOpacity(words[k]) \/ IsStrongBlur(words[k])}

\* C11: a filter value with a function opacity(x), x <= 5%, or blur(x),
\* x > 10px, makes _check_visibility report filter_effect and visible = false;
\* a value with neither is not reported for its filter.
FilterEffectReported ==
    pc = "filtered" =>
        /\ ~res.raised
        /\ HidingWords(arg) # {} => (Given(res.reasons, "filter_effect") /\ ~res.visible)
        /\ HidingWords(arg) = {} => ~Given(res.reasons, "filter_effect")

\* C12: a tree that _prune_tree has pruned is left as it is by a second
\* _prune_tree: no further node is removed.
PruningIdempotent ==
    \A k \in 1..Len(frames) : PruneTree(frames[k].soup) = frames[k].soup

\* the analyzer of a document from which pruning removed one element and
\* kept another
PrunedAndKept ==
    /\ pc = "run"
    /\ Len(frames) = 1
    /\ frames[1].soup # HandleSplitConditionals(content)
    /\ ChildTags(frames[1].soup, FindBody(frames[1].soup)) # << >>

\* C13: blending a colour of alpha 1 that the parser returned over any
\* background gives the rgb of that colour and alpha 1.
OpaqueForegroundKept ==
    (pc = "blended" /\ res[1].alpha = Milli) =>
        /\ res[3].rgb = res[1].rgb
        /\ res[3].alpha = Milli

(***************************************************************************)
(* The opacity of the elements of a path on its own: each step resolves    *)
(* one more element, with an opacity attribute and an inline opacity       *)
(* declaration, under what the element before it hands down.  arg holds    *)
(* the elements resolved so far.                                           *)
(***************************************************************************)
OpacityValues == { "", "0.5", "50%", " 25% ", "150%", "-1", "abc", "0" }
OpacityAttrs == { "", "0.5", "50%" }
ParentOpacities == { "1", "0.5", "abc" }

\* elements on a path
MaxOpacityDepth == 2

InitOpacity ==
    /\ pc = "opacity"
    /\ content = ""
    /\ frames = << >>
    /\ outcome = NoVerdict
    /\ arg = << >>
    /\ res = << >>

\* a div with an opacity attribute and an inline opacity declaration
OpacityNode(attr, inline) ==
    [name |-> "div",
     attrs |-> (IF attr = "" THEN NoAttrs ELSE [x \in {"opacity"} |-> attr])
               @@ StyleAttrs(IF inline = "" THEN "" ELSE "opacity:" \o inline)]

\* the inherited style of the next element: the first element is resolved
\* under a style whose opacity is parent
InheritedOpacity(parent) ==
    IF arg = << >> THEN StyleSet(DEFAULT_STYLE, "opacity", parent)
    ELSE InheritedOf(arg[Len(arg)].style)

OpacityResolved(attr, inline, inherited) ==
    arg' = Append(arg, [attr |-> attr, inline |-> inline, parent |-> inherited["opacity"],
                        style |-> ParseNodeStyle(OpacityNode(attr, inline), inherited).style])

\* current_style = self._parse_node_style(node, inherited_style)
OpacityStep ==
    /\ pc = "opacity"
    /\ Len(arg) < MaxOpacityDepth
    /\ \E attr \in OpacityAttrs, inline \in OpacityValues,
          parent \in (IF arg = << >> THEN ParentOpacities ELSE {"1"}) :
          OpacityResolved(attr, inline, InheritedOpacity(parent))
    /\ UNCHANGED << pc, content, frames, outcome, res >>

NextOpacity == OpacityStep

SpecOpacity == InitOpacity /\ [][NextOpacity]_vars

\* the factor each value stands for, in thousandths: a percentage divided by
\* 100, clamped to [0, 1], and 1.0 for a value that is no number
ExpectedFactor(value) ==
    CASE value = "0.5" -> 500
      [] value = "50%" -> 500
      [] value = " 25% " -> 250
      [] value = "150%" -> 1000
      [] value = "-1" -> 0
      [] value = "0" -> 0
      [] value = "1" -> 1000
      [] OTHER -> 1000

\* the value of an opacity "d.dd", in hundredths
Hundredths(text) == ParseFloat(text).v \div 10

\* the parent opacity a text stands for, in thousandths: an opacity resolved
\* before, "d.dd", or an opacity a caller hands in
ExpectedParent(text) ==
    IF text \in ParentOpacities THEN ExpectedFactor(text) ELSE Hundredths(text) * 10

\* text is the product of a parent opacity of p thousandths and a factor of
\* f thousandths, written with two decimals
IsProduct(text, p, f) ==
    /\ Len(text) = 4
    /\ Ch(text, 2) = "."
    /\ Abs(Hundredths(text) * 10 * Milli - p * f) <= 5 * Milli

\* C14: _parse_opacity gives the parent opacity times the clamped factor of
\* the current value with two decimals, and along a path the opacity of an
\* element is never above that of an element before it.
OpacityAccumulates ==
    /\ \A i \in 1..Len(arg) :
          (pc = "opacity" /\ arg[i].attr = "") =>
              IsProduct(arg[i].style["opacity"], ExpectedParent(arg[i].parent),
                        ExpectedFactor(arg[i].inline))
    /\ \A i \in 1..Len(arg), j \in 1..Len(arg) :
          (pc = "opacity" /\ i < j) =>
              Hundredths(arg[j].style["opacity"]) <= Hundredths(arg[i].style["opacity"])

\* an element at half opacity below an element at a quarter
OpacityHalved ==
    /\ pc = "opacity"
    /\ Len(arg) = 2
    /\ arg[1].style["opacity"] = "0.25"
    /\ arg[2].inline = "50%"
    /\ arg[2].style["opacity"] \in {"0.12", "0.13"}

\* every content of the element is a tag that cannot be styled
OnlyUnstylableChildren(soup, id) ==
    \A k \in 1..Len(soup[id].contents) :
        /\ soup[id].contents[k].k = "tag"
        /\ soup[soup[id].contents[k].id].name \in NON_STYLABLE_TAGS

\* a leaf: direct text that is not blank, or only children that cannot be
\* styled and no descendant that can
TextLeaf(soup, id) ==
    \/ GetNodeText(soup, id) # ""
    \/ (/\ OnlyUnstylableChildren(soup, id)
        /\ \A d \in 1..Len(DescendantTags(soup, id)) :
              soup[DescendantTags(soup, id)[d]].name \in NON_STYLABLE_TAGS)

IsChild(soup, parent, id) == \E k \in 1..Len(ChildTags(soup, parent)) : ChildTags(soup, parent)[k] = id

\* a path from the content root down to its first leaf
RootToLeaf(soup, path) ==
    /\ path # << >>
    /\ path[1] = FindBody(soup)
    /\ \A k \in 1..(Len(path) - 1) : IsChild(soup, path[k], path[k + 1])
    /\ \A k \in 1..Len(path) : soup[path[k]].name \notin NON_STYLABLE_TAGS
    /\ TextLeaf(soup, path[Len(path)])
    /\ \A k \in 1..(Len(path) - 1) : ~TextLeaf(soup, path[k])

IsProperPrefix(p, q) == Len(p) < Len(q) /\ SubSeq(q, 1, Len(p)) = p

\* C15: every collected path runs from the content root through children
\* that can be styled down to a leaf, no node before the last is a leaf, and
\* no collected path is a proper prefix of another.
PathsEndAtFirstLeaf ==
    \A f \in 1..Len(frames) :
        /\ \A p \in 1..Len(frames[f].paths) : RootToLeaf(frames[f].soup, frames[f].paths[p])
        /\ \A p \in 1..Len(frames[f].paths), q \in 1..Len(frames[f].paths) :
              ~IsProperPrefix(frames[f].paths[p], frames[f].paths[q])

\* the type and text of the records a path gives from place k on: a text
\* record for each element with direct text, down to the first anchor, and a
\* link record for an anchor with text
RECURSIVE RecordsAlong(_, _, _)
RecordAt(soup, id) ==
    IF soup[id].name = "a"
    THEN (IF GetLinkText(soup, id) = "" THEN << >>
          ELSE << [type |-> "link", text |-> GetLinkText(soup, id)] >>)
    ELSE (IF GetNodeText(soup, id) = "" THEN << >>
          ELSE << [type |-> "text", text |-> GetNodeText(soup, id)] >>)
RecordsAlong(soup, path, k) ==
    IF k > Len(path) THEN << >>
    ELSE RecordAt(soup, path[k])
         \o (IF soup[path[k]].name = "a" THEN << >> ELSE RecordsAlong(soup, path, k + 1))

\* the records of the paths from path p on, in the order of collection
RECURSIVE RecordsOfPaths(_, _)
RecordsOfPaths(f, p) ==
    IF p > Len(f.paths) THEN << >>
    ELSE RecordsAlong(f.soup, f.paths[p], 1) \o RecordsOfPaths(f, p + 1)

\* the type and text of the records from record i on that are no comment records
RECURSIVE TextsAndLinks(_, _)
TextsAndLinks(results, i) ==
    IF i > Len(results) THEN << >>
    ELSE (IF results[i].type \in {"text", "link"}
          THEN << [type |-> results[i].type, text |-> results[i].text] >> ELSE << >>)
         \o TextsAndLinks(results, i + 1)

\* C16: in the records analyze_paths returns every text and link record
\* stands before every comment record, and the text and link records stand
\* in the order in which collect_paths collected their paths, breadth first.
RecordsInCollectionOrder ==
    Analyzed =>
        /\ \A i \in 1..Len(outcome.results), j \in 1..Len(outcome.results) :
              (i < j /\ outcome.results[i].type \notin {"text", "link"})
                  => outcome.results[j].type \notin {"text", "link"}
        /\ TextsAndLinks(outcome.results, 1) = RecordsOfPaths(frames[1], 1)
        /\ \A p \in 1..Len(frames[1].paths), q \in 1..Len(frames[1].paths) :
              p < q => Len(frames[1].paths[p]) <= Len(frames[1].paths[q])

\* the records of two paths with different texts, followed by a comment record
TwoPathsThenComment ==
    /\ Analyzed
    /\ Len(frames[1].paths) >= 2
    /\ Len(outcome.results) >= 3
    /\ outcome.results[1].type \in {"text", "link"}
    /\ outcome.results[2].type \in {"text", "link"}
    /\ outcome.results[1].text # outcome.results[2].text
    /\ outcome.results[Len(outcome.results)].type = "html_comment"

(* ------------------------------------------------------------------------ *)
(* The background of an element: _parse_node_style on elements that carry   *)
(* a bgcolor attribute, an inline background declaration, both or neither,  *)
(* down a path of nested elements.                                          *)
(* ------------------------------------------------------------------------ *)

BgNames == { "td", "body", "font", "div" }

BgAttrValues == { "", "#000", "rgba(255,0,0,0.5)", "transparent" }

\* inline declarations of a background: property name and value
BgInlines ==
    { << "", "" >>, << "background-color", "red" >>, << "BGCOLOR", "rgba(0,0,255,0.5)" >>,
      << "Background-Color", "#000" >>, << "background-color", "transparent" >> }

\* elements on a path
MaxBgDepth == 2

InitBackground ==
    /\ pc = "background"
    /\ content = ""
    /\ frames = << >>
    /\ outcome = NoVerdict
    /\ arg = << >>
    /\ res = << >>

\* the element with this bgcolor attribute and this inline declaration
BgNode(name, attr, inline) ==
    [name |-> name,
     attrs |-> (IF inline[1] = "" THEN NoAttrs ELSE StyleAttrs(inline[1] \o ":" \o inline[2]))
               @@ (IF attr = "" THEN NoAttrs ELSE [x \in {"bgcolor"} |-> attr])]

\* inherited_style at the place the walk has reached
InheritedBackground == IF arg = << >> THEN DEFAULT_STYLE ELSE InheritedOf(arg[Len(arg)].style)

BackgroundResolved(name, attr, inline, inherited) ==
    arg' = Append(arg, [name |-> name, attr |-> attr, inline |-> inline, inherited |-> inherited,
                        style |-> ParseNodeStyle(BgNode(name, attr, inline), inherited).style])

\* current_style = self._parse_node_style(node, inherited_style)
BackgroundStep ==
    /\ pc = "background"
    /\ Len(arg) < MaxBgDepth
    /\ \E name \in BgNames, attr \in BgAttrValues, inline \in BgInlines :
          BackgroundResolved(name, attr, inline, InheritedBackground)
    /\ UNCHANGED << pc, content, frames, outcome, res >>

\* visible, reasons = self._check_visibility(current_style)
BackgroundCheckStep ==
    /\ pc = "background"
    /\ arg # << >>
    /\ res' \in CheckVisibility(arg[Len(arg)].style)
    /\ pc' = "bgchecked"
    /\ UNCHANGED << content, frames, outcome, arg >>

NextBackground ==
    \/ BackgroundStep
    \/ BackgroundCheckStep

SpecBackground == InitBackground /\ [][NextBackground]_vars

\* the background an element is to have: the inline declaration alone when
\* there is one, else the bgcolor attribute of a table, tr, td, th, font or
\* body element laid over the inherited background, else the inherited one
ExpectedBackground(e) ==
    IF e.inline[1] # "" THEN ParseColor(Str(e.inline[2]), "bg")
    ELSE IF e.attr # "" /\ e.name \in {"table", "tr", "td", "th", "font", "body"}
    THEN BlendColors(ParseColor(Str(e.attr), "bg"), e.inherited["background-color"])
    ELSE e.inherited["background-color"]

\* C17: a bgcolor attribute on table, tr, td, th, font and body is composited
\* as the foreground layer over the background of the inherited style; an
\* inline background-color or bgcolor declaration replaces the background;
\* with both, the inline declaration gives the resolved background.
BgcolorCompositedInlineReplaces ==
    \A i \in 1..Len(arg) :
        arg[i].style["background-color"] = ExpectedBackground(arg[i])

\* a half transparent bgcolor attribute over an inherited background gave a
\* colour that is neither of the two, and an element with attribute and
\* inline declaration has been resolved
CompositedAndReplaced ==
    /\ pc = "background"
    /\ Len(arg) = 2
    /\ arg[1].attr = "rgba(255,0,0,0.5)" /\ arg[1].inline[1] = "" /\ arg[1].name = "td"
    /\ arg[1].style["background-color"] # ParseColor(Str(arg[1].attr), "bg")
    /\ arg[1].style["background-color"] # arg[1].inherited["background-color"]
    /\ arg[2].attr = "#000" /\ arg[2].inline[1] = "BGCOLOR" /\ arg[2].name = "td"
    /\ arg[2].style["background-color"] # arg[2].inherited["background-color"]

\* the [cond:...] markers of conditional containers in a tree
ConditionalMarkers(soup) ==
    Cardinality({ k \in 1..Len(CommentsBelow(soup, 1)) :
                     IsConditional(soup, CommentsBelow(soup, 1)[k]) })

\* C18: the recursive re-analysis of the container of a [cond:...] comment
\* comes to an end: the document of a nested analyzer holds fewer conditional
\* blocks than the document of the analyzer that constructed it, so no
\* analyzer is given a document that again contains the block it was
\* entered for.
NestedAnalysisDescends ==
    \A k \in 2..Len(frames) :
        ConditionalMarkers(frames[k].soup) < ConditionalMarkers(frames[k - 1].soup)

\* C19: the effective background _check_visibility compares the text colour
\* with is opaque for every resolved background, a fully transparent one
\* included; default black text on a background-color of transparent is
\* compared with opaque white and is not reported hidden.
EffectiveBackgroundOpaque ==
    pc = "bgchecked" =>
        /\ FinalBackground(arg[Len(arg)].style).alpha = Milli
        /\ (Len(arg) = 1 /\ arg[1].inline = << "background-color", "transparent" >>)
               => (~res.raised /\ res.visible
                   /\ FinalBackground(arg[1].style) = DEFAULT_STYLE["background-color"])

(* ------------------------------------------------------------------------ *)
(* The style objects of analyze_paths.  Dictionaries are objects that can   *)
(* be shared and written to, so they are kept in a heap: heap[a] is the     *)
(* content of the dictionary at address a, and DEFAULT_STYLE is the object  *)
(* at address 1.  arg holds the heap, the address of inherited_style (0     *)
(* between two paths), the nodes of the path walked so far and the number   *)
(* of paths walked; res holds what each turn of the inner loop has seen.    *)
(* ------------------------------------------------------------------------ *)

\* paths analyze_paths walks, and elements on a path
MaxFramePaths == 2
MaxFrameDepth == 2

DefaultAt == 1

FrameDecls ==
    { Decl("div", "red", "", "", NoAttrs),
      Decl("div", "", "0.5", "", NoAttrs),
      Decl("div", "", "", "background-color:red;display:none", NoAttrs),
      Decl("td", "", "", "", [x \in {"bgcolor"} |-> "#000"]) }

Objects(heap, at) == [heap |-> heap, at |-> at]

\* a faulty variant of Deepcopy that hands out the object itself
Shared(heap, a) == Objects(heap, a)

\* copy.deepcopy(obj): a new object with the same content
Deepcopy(heap, a) == Objects(Append(heap, heap[a]), Len(heap) + 1)

\* style[...] = ...: the object at address a has come to hold this content
Store(heap, a, style) == [heap EXCEPT ![a] = style]

InitFrame ==
    /\ pc = "frame"
    /\ content = ""
    /\ frames = << >>
    /\ outcome = NoVerdict
    /\ arg = [heap |-> << DEFAULT_STYLE >>, inherited |-> 0, nodes |-> << >>, walked |-> 0]
    /\ res = << >>

PathStarted(c) == arg' = [arg EXCEPT !.heap = c.heap, !.inherited = c.at, !.nodes = << >>]

\* for path in self.paths: inherited_style = copy.deepcopy(DEFAULT_STYLE)
StartPath ==
    /\ pc = "frame"
    /\ arg.inherited = 0
    /\ arg.walked < MaxFramePaths
    /\ PathStarted(Deepcopy(arg.heap, DefaultAt))
    /\ UNCHANGED << pc, content, frames, outcome, res >>

\* _parse_node_style: style = copy.deepcopy(inherited_style), the node's
\* declarations written to style; the heap and the address of style
StyleParsed(heap, inherited, c, node) ==
    Objects(Store(c.heap, c.at, ParseNodeStyle(node, heap[inherited]).style), c.at)

\* inherited_style = {k: copy.deepcopy(v) for ... if k in INHERITABLE_PROPS}
NextInherited(heap, current) == Objects(Append(heap, InheritedOf(heap[current])), Len(heap) + 1)

\* what one turn of the loop over the nodes of a path has seen: the content
\* of DEFAULT_STYLE and of the inherited style before and after the calls
Seen(d, before, inherited, s, v) ==
    [nodes |-> Append(arg.nodes, d), passed |-> before[inherited], kept |-> s.heap[inherited],
     default |-> s.heap[DefaultAt], style |-> s.heap[s.at], v |-> v]

NodeWalked(d, inherited, s, n) ==
    /\ arg' = [arg EXCEPT !.heap = n.heap, !.inherited = n.at, !.nodes = Append(@, d)]
    /\ \E v \in CheckVisibility(s.heap[s.at]) : res' = Append(res, Seen(d, arg.heap, inherited, s, v))

NodeParsed(d, inherited, s) == NodeWalked(d, inherited, s, NextInherited(s.heap, s.at))

\* for node in path: current_style = self._parse_node_style(node,
\* inherited_style); self._check_visibility(current_style); inherited_style = ...
NodeStep ==
    /\ pc = "frame"
    /\ arg.inherited # 0
    /\ Len(arg.nodes) < MaxFrameDepth
    /\ \E d \in FrameDecls :
          NodeParsed(d, arg.inherited,
                     StyleParsed(arg.heap, arg.inherited, Deepcopy(arg.heap, arg.inherited), NodeOf(d)))
    /\ UNCHANGED << pc, content, frames, outcome >>

\* the last node of the path has been walked
EndPath ==
    /\ pc = "frame"
    /\ arg.inherited # 0
    /\ arg.nodes # << >>
    /\ arg' = [arg EXCEPT !.inherited = 0, !.walked = @ + 1]
    /\ UNCHANGED << pc, content, frames, outcome, res >>

NextFrame ==
    \/ StartPath
    \/ NodeStep
    \/ EndPath

SpecFrame == InitFrame /\ [][NextFrame]_vars

\* the style of the last of these nodes when nothing but the nodes counts
RECURSIVE StyleAlong(_, _, _)
StyleAlong(nodes, k, inherited) ==
    IF k = Len(nodes) THEN ParseNodeStyle(NodeOf(nodes[k]), inherited).style
    ELSE StyleAlong(nodes, k + 1, InheritedOf(ParseNodeStyle(NodeOf(nodes[k]), inherited).style))

\* C20: _parse_node_style and _check_visibility leave the inherited style
\* they are given and DEFAULT_STYLE unchanged, every path starts from a fresh
\* copy of DEFAULT_STYLE, and the record of a node depends on the nodes of
\* its path alone, not on the paths walked before.
StylesNeverShared ==
    /\ pc = "frame" => arg.heap[DefaultAt] = DEFAULT_STYLE
    /\ (pc = "frame" /\ arg.inherited # 0 /\ arg.nodes = << >>)
           => (arg.inherited # DefaultAt /\ arg.heap[arg.inherited] = DEFAULT_STYLE)
    /\ \A i \in 1..Len(res) :
          pc = "frame" =>
              /\ res[i].kept = res[i].passed
              /\ res[i].default = DEFAULT_STYLE
              /\ res[i].style = StyleAlong(res[i].nodes, 1, DEFAULT_STYLE)
              /\ res[i].v \in CheckVisibility(res[i].style)

\* a second path has been walked after a first one whose node changed the
\* colours, the opacity and the display of its style
SecondPathWalked ==
    /\ pc = "frame"
    /\ arg.walked = 1
    /\ Len(res) = 2
    /\ Len(res[1].nodes) = 1 /\ Len(res[2].nodes) = 1
    /\ res[1].style # res[2].style
    /\ ~res[1].v.visible
    /\ res[2].v.visible
====
